---- MODULE Spec2Model ----
(***************************************************************************)
(* Order workflow of the uaifood backend: the order routes with their      *)
(* middleware chains (autenticarToken, authorizeRole, validate) and the    *)
(* order controller (createOrder, getMyOrderById, updateOrderStatus),      *)
(* together with the catalog price update of the item controller.  Prices  *)
(* and totals are integers (cents).                                        *)
(*                                                                         *)
(* Every request handler is split at its awaited store operations: the     *)
(* code between two awaits runs without interruption on the event loop,    *)
(* each store operation is one atomic step of the database, and steps of   *)
(* different requests interleave freely.                                   *)
(***************************************************************************)
EXTENDS Integers, Sequences, FiniteSets, TLC

(***************************************************************************)
(* Bounds of the model.                                                    *)
(***************************************************************************)
\* orders that exist
MaxOrders == 1
\* lines of a create-order request body
MaxLines == 2
\* requests in flight at the same time
MaxReqs == 2
\* items of the catalog
NumItems == 2
\* highest unit price (in cents) an item takes
MaxPrice == 2
\* categories of the seed
NumCategories == 1
\* users that register after the seed
MaxNewUsers == 1
\* times at which login signs tokens
MaxSessions == 1
\* ids the Address table hands out
MaxAddressIds == 2
\* rows added to the Category table and to the Item table
MaxNewRows == 1

Reqs == 1 .. MaxReqs
ItemIds == 1 .. NumItems
\* an item id that no catalog row carries
MissingItemId == NumItems + 1
Prices == 1 .. MaxPrice

VARIABLES unitPrice, orders, reqs, response, expected,
          users, issued, blacklist, addresses, catalog,
          cart, localStorage, effects, loading, handlers

vars == <<unitPrice, orders, reqs, response, expected,
          users, issued, blacklist, addresses, catalog,
          cart, localStorage, effects, loading, handlers>>

\* the state of the browser: the cart provider and the checkout page
pageVars == <<cart, localStorage, effects, loading, handlers>>

\* the state of the server: the store, the handlers and the last response
serverVars == <<unitPrice, orders, reqs, response, expected,
                users, issued, blacklist, addresses, catalog>>

\* the state the order routes and the item price update leave alone
accountVars == <<users, issued, blacklist, addresses, catalog>>

(***************************************************************************)
(* Users.  The seed creates one administrator and the clients; a token     *)
(* carries the id and the type of its user.                                *)
(***************************************************************************)
ClientIds == {1, 2}
AdminIds == {3}
UserIds == ClientIds \cup AdminIds

UserType(u) == IF u \in AdminIds THEN "ADMIN" ELSE "CLIENT"

\* what a request presents in its Authorization header: no header, a header
\* that is not "Bearer <token>", a token jwt.verify rejects (malformed, badly
\* signed or expired), or a token generateToken signed for a user at time iat
NoHeader == [kind |-> "none", id |-> 0, type |-> "", iat |-> 0]
NotBearer == [kind |-> "notbearer", id |-> 0, type |-> "", iat |-> 0]
BadToken == [kind |-> "invalid", id |-> 0, type |-> "", iat |-> 0]
Token(id, type, iat) == [kind |-> "valid", id |-> id, type |-> type, iat |-> iat]
TokenOf(u) == Token(u, UserType(u), 0)
Credentials == {NoHeader, NotBearer, BadToken} \cup {TokenOf(u) : u \in UserIds}

(***************************************************************************)
(* Middlewares.  Each yields 0 when it calls next() and the status code    *)
(* it answers otherwise.                                                   *)
(***************************************************************************)
\* verifyToken without the look at the blacklist
verifyTokenThrows_NoBlacklist(cred) == cred.kind = "invalid"

\* verifyToken throws for a token of the blacklist and when jwt.verify throws
verifyTokenThrows(cred) == cred \in blacklist \/ cred.kind = "invalid"

\* autenticarToken answering 401 whenever it lets no request through
autenticarToken_Always401(cred) ==
  IF cred.kind \in {"none", "notbearer"} \/ verifyTokenThrows(cred) THEN 401
  ELSE 0

autenticarToken(cred) ==
  IF cred.kind \in {"none", "notbearer"} THEN 401
  ELSE IF verifyTokenThrows(cred) THEN 403
  ELSE 0

\* authorizeRole without the look at the allowed roles
authorizeRole_AnyRole(allowedRoles, cred) ==
  IF cred.type = "" THEN 403 ELSE 0

authorizeRole(allowedRoles, cred) ==
  IF cred.type = "" THEN 403
  ELSE IF cred.type \notin allowedRoles THEN 403
  ELSE 0

(***************************************************************************)
(* Numbers of a JSON body.  A quantity is a rational num/den (den > 0), so *)
(* that fractional quantities are inputs too.                              *)
(***************************************************************************)
Num(n, d) == [num |-> n, den |-> d]
IsPositive(q) == q.num > 0
IsInteger(q) == q.num % q.den = 0
IntValue(q) == q.num \div q.den

PAYMENT_METHODS == {"CASH", "DEBIT", "CREDIT", "PIX"}

\* orderSchema: z.enum for paymentMethod, a non-empty array of
\* {itemId: int, quantity: positive number} for items; the item ids of the
\* requests are integers, the quantities any rational
orderSchemaOk(body) ==
  /\ body.paymentMethod \in PAYMENT_METHODS
  /\ body.hasItems
  /\ \A i \in 1 .. Len(body.items) : IsPositive(body.items[i].quantity)
  /\ Len(body.items) > 0

\* z.object strips the keys the schema does not name
orderSchemaParse(body) ==
  [paymentMethod |-> body.paymentMethod, hasItems |-> body.hasItems,
   items |-> body.items]

\* validate(orderSchema): 0 and the parsed body, or 400
validate(body) == IF orderSchemaOk(body) THEN 0 ELSE 400


(***************************************************************************)
(* State.                                                                  *)
(*   unitPrice      catalog: unit price (cents) of every item              *)
(*   orders         the Order table with its OrderItem rows; the id of an  *)
(*                  order is its index (autoincrement)                     *)
(*   reqs           per request slot, the handler's position and locals    *)
(*   response       the response the last step sent (NoResponse when it    *)
(*                  sent none)                                             *)
(*   expected       per order, the sum of the lines of its request at the  *)
(*                  catalog prices of its creation (history)               *)
(*   users          the User table; the id of a user is its index          *)
(*   issued         the tokens login has signed                            *)
(*   blacklist      the in-memory list of the tokens logout has revoked    *)
(*   addresses      the Address table: its rows and its id sequence        *)
(*   catalog        the Category table with its id sequence, and the       *)
(*                  category and the id sequence of the Item table         *)
(*   cart           the cart state of CartProvider (useState)              *)
(*   localStorage   the text stored under the key "cart", and whether the  *)
(*                  key is present                                         *)
(*   effects        the position of CartProvider's effects, the cart of    *)
(*                  the render they closed over and the queued setCart     *)
(*   loading        the loading state of the Checkout page                 *)
(*   handlers       per click, the position of its handleCheckout call     *)
(***************************************************************************)
NULL == "null"
STATUSES == <<"pending", "preparing", "delivering", "delivered">>

\* STATUS_FLOW with a step skipped: preparing leads to delivered
STATUS_FLOW_Skips ==
  [s \in {"pending", "preparing", "delivering", "delivered"} |->
     CASE s = "pending" -> "preparing"
       [] s = "preparing" -> "delivered"
       [] s = "delivering" -> "delivered"
       [] OTHER -> NULL]

STATUS_FLOW ==
  [s \in {"pending", "preparing", "delivering", "delivered"} |->
     CASE s = "pending" -> "preparing"
       [] s = "preparing" -> "delivering"
       [] s = "delivering" -> "delivered"
       [] OTHER -> NULL]

NoOrder ==
  [id |-> 0, clientId |-> 0, paymentMethod |-> "", status |-> "", total |-> 0,
   createdAt |-> 0, orderItems |-> <<>>]

\* a request without body
NoBody ==
  [paymentMethod |-> "", hasItems |-> FALSE, items |-> <<>>, status |-> "",
   total |-> 0, clientId |-> 0]

Idle == [pc |-> "idle", caller |-> 0, cred |-> NoHeader, orderId |-> 0,
         total |-> 0, seen |-> "", nextStatus |-> "", request |-> NoBody]

\* a response, with the request it answers: the operation, the credential
\* presented and the id it carries, the order id of the path (of the created
\* order for createOrder) and the request body; seen and before are the
\* status updateOrderStatus read and the status stored right before its
\* write; data is the array or the row of the other routes' answers
Res(op, code, cred, orderId, body, seen, before, request) ==
  [op |-> op, code |-> code, caller |-> cred.id, cred |-> cred,
   orderId |-> orderId, body |-> body, seen |-> seen, before |-> before,
   request |-> request, data |-> <<>>]

NoResponse == Res("", 0, NoHeader, 0, NoOrder, "", "", NoBody)

\* the response of a route that answers with an array or a row
ResData(op, code, cred, request, data) ==
  [Res(op, code, cred, 0, NoOrder, "", "", request) EXCEPT !.data = data]

OrderIds == 1 .. Len(orders)

\* the seed's catalog: the items differ in price
SeedPrice(i) == IF i \in Prices THEN i ELSE MaxPrice

\* bcrypt.hash and bcrypt.compare
hash(password) == <<"bcrypt", password>>
compare(password, hashed) == hashed = hash(password)

\* the seed's users: the clients and the administrator
SeedUser(u) ==
  [name |-> "seed", email |-> u,
   password |-> IF u \in AdminIds THEN hash("admin123") ELSE hash("cliente123"),
   type |-> UserType(u)]

SeedUsers == [u \in UserIds |-> SeedUser(u)]

\* the seed's categories, and its items in the first of them
SeedCatalog ==
  [categories |-> [c \in 1 .. NumCategories |-> <<"s", "e", "e", "d">>],
   nextCategoryId |-> NumCategories + 1,
   categoryId |-> [i \in ItemIds |-> 1],
   nextItemId |-> NumItems + 1]

\* a cart quantity the model lets addToCart reach, and the clicks on
\* "Finalizar pedido" whose handlers the model follows
MaxCartQuantity == 3
MaxClicks == 2
Clicks == 1 .. MaxClicks

\* CartProvider before the page is opened, and a click without a handler
Unmounted ==
  [pc |-> "unmounted", strict |-> FALSE, pass |-> 0,
   closure |-> <<>>, queue |-> <<>>]
HandlerIdle == [pc |-> "idle", cart |-> <<>>]

\* localStorage without the key "cart", and with a text under it
NoItem == [present |-> FALSE, text |-> <<>>]
setItem(text) == [present |-> TRUE, text |-> text]

PageInit ==
  /\ cart = <<>>
  /\ localStorage = NoItem
  /\ effects = Unmounted
  /\ loading = FALSE
  /\ handlers = [h \in Clicks |-> HandlerIdle]

Init ==
  /\ unitPrice = [i \in ItemIds |-> SeedPrice(i)]
  /\ orders = <<>>
  /\ reqs = [r \in Reqs |-> Idle]
  /\ response = NoResponse
  /\ expected = <<>>
  /\ users = SeedUsers
  /\ issued = {TokenOf(u) : u \in UserIds}
  /\ blacklist = {}
  /\ addresses = [rows |-> {}, nextId |-> 1]
  /\ catalog = SeedCatalog
  /\ PageInit

(***************************************************************************)
(* The store (Prisma over the relational schema).                          *)
(***************************************************************************)
\* prisma.order.create with nested orderItems throws and writes nothing when
\* a line breaks the schema: quantity is an Int column, itemId a foreign key
\* to Item, paymentMethod an enum
prismaOrderCreateThrows(data) ==
  \/ data.paymentMethod \notin PAYMENT_METHODS
  \/ \E i \in 1 .. Len(data.orderItems) :
       \/ ~IsInteger(data.orderItems[i].quantity)
       \/ data.orderItems[i].itemId \notin DOMAIN unitPrice

\* the times createdAt @default(now()) can take: the time of the last insert
\* or a later one (time counts from the first insert)
Clock ==
  IF orders = <<>> THEN {1}
  ELSE {orders[Len(orders)].createdAt, orders[Len(orders)].createdAt + 1}

\* the row prisma.order.create inserts at time now
prismaOrderCreate(data, now) ==
  [id |-> Len(orders) + 1, clientId |-> data.clientId,
   paymentMethod |-> data.paymentMethod, status |-> data.status,
   total |-> data.total, createdAt |-> now,
   orderItems |-> [i \in 1 .. Len(data.orderItems) |->
                     [itemId |-> data.orderItems[i].itemId,
                      quantity |-> IntValue(data.orderItems[i].quantity)]]]

(***************************************************************************)
(* createOrder                                                             *)
(***************************************************************************)
\* POST /orders without the checks of the items list
createOrderGate_NoItemsCheck(cred, body) ==
  IF autenticarToken(cred) # 0 THEN autenticarToken(cred)
  ELSE IF authorizeRole({"CLIENT"}, cred) # 0 THEN authorizeRole({"CLIENT"}, cred)
  ELSE IF body.paymentMethod \notin PAYMENT_METHODS THEN 400
  ELSE 0

\* the status code that ends POST /orders before the store is touched, or 0
createOrderGate(cred, body) ==
  IF autenticarToken(cred) # 0 THEN autenticarToken(cred)
  ELSE IF authorizeRole({"CLIENT"}, cred) # 0 THEN authorizeRole({"CLIENT"}, cred)
  ELSE IF validate(body) # 0 THEN validate(body)
  ELSE IF ~body.hasItems \/ Len(body.items) = 0 THEN 400
  ELSE 0

\* the data of the first store write, with the client id of the body when
\* the body carries one
createOrderData_ClientIdFromBody(cred, body) ==
  [clientId |-> IF body.clientId # 0 THEN body.clientId ELSE cred.id,
   paymentMethod |-> orderSchemaParse(body).paymentMethod,
   status |-> "pending",
   total |-> 0,
   orderItems |-> [i \in 1 .. Len(orderSchemaParse(body).items) |->
                     [itemId |-> orderSchemaParse(body).items[i].itemId,
                      quantity |-> orderSchemaParse(body).items[i].quantity]]]

\* the data of the first store write
createOrderData(cred, body) ==
  [clientId |-> cred.id,
   paymentMethod |-> orderSchemaParse(body).paymentMethod,
   status |-> "pending",
   total |-> 0,
   orderItems |-> [i \in 1 .. Len(orderSchemaParse(body).items) |->
                     [itemId |-> orderSchemaParse(body).items[i].itemId,
                      quantity |-> orderSchemaParse(body).items[i].quantity]]]

\* the reduce with the quantity left out of the product
reduceTotal_NoQuantity(orderItems, price, sum) ==
  IF orderItems = <<>> THEN sum
  ELSE sum + price[Head(orderItems).itemId]
         + (IF Tail(orderItems) = <<>> THEN 0
            ELSE price[Head(Tail(orderItems)).itemId])

\* order.orderItems.reduce((sum, oi) => sum + oi.item.unitPrice * oi.quantity, 0)
RECURSIVE reduceTotal(_, _, _)
reduceTotal(orderItems, price, sum) ==
  IF orderItems = <<>> THEN sum
  ELSE reduceTotal(Tail(orderItems), price,
                   sum + price[Head(orderItems).itemId] * Head(orderItems).quantity)

\* the sum, over the lines of a request, of unit price x quantity
LineSum(items, price) ==
  LET RECURSIVE upTo(_)
      upTo(n) == IF n = 0 THEN 0
                 ELSE upTo(n - 1)
                        + price[items[n].itemId] * IntValue(items[n].quantity)
  IN upTo(Len(items))

CreateOrderRejected(cred, body) ==
  /\ createOrderGate(cred, body) # 0
  /\ response' = Res("createOrder", createOrderGate(cred, body), cred, 0,
                     NoOrder, "", "", body)
  /\ UNCHANGED <<unitPrice, orders, reqs, expected>>
  /\ UNCHANGED accountVars
  /\ UNCHANGED pageVars

CreateOrderStoreError(cred, body) ==
  /\ createOrderGate(cred, body) = 0
  /\ prismaOrderCreateThrows(createOrderData(cred, body))
  /\ response' = Res("createOrder", 500, cred, 0, NoOrder, "", "", body)
  /\ UNCHANGED <<unitPrice, orders, reqs, expected>>
  /\ UNCHANGED accountVars
  /\ UNCHANGED pageVars

\* first store write; the total is computed from the rows it returns
CreateOrderInsert(r, cred, body, limit) ==
  /\ reqs[r].pc = "idle"
  /\ Len(orders) < limit
  /\ createOrderGate(cred, body) = 0
  /\ ~prismaOrderCreateThrows(createOrderData(cred, body))
  /\ \E now \in Clock :
     LET order == prismaOrderCreate(createOrderData(cred, body), now) IN
       /\ orders' = Append(orders, order)
       /\ expected' = Append(expected, LineSum(body.items, unitPrice))
       /\ reqs' = [reqs EXCEPT ![r] =
                     [Idle EXCEPT !.pc = "created", !.caller = cred.id, !.cred = cred,
                                  !.orderId = order.id, !.request = body,
                                  !.total = reduceTotal(order.orderItems, unitPrice, 0)]]
  /\ response' = NoResponse
  /\ UNCHANGED unitPrice
  /\ UNCHANGED accountVars
  /\ UNCHANGED pageVars

\* second store write: prisma.order.update({data: {total}})
CreateOrderSetTotal(r) ==
  /\ reqs[r].pc = "created"
  /\ orders' = [orders EXCEPT ![reqs[r].orderId].total = reqs[r].total]
  /\ response' = Res("createOrder", 201, reqs[r].cred, reqs[r].orderId,
                     orders'[reqs[r].orderId], "", "", reqs[r].request)
  /\ reqs' = [reqs EXCEPT ![r] = Idle]
  /\ UNCHANGED <<unitPrice, expected>>
  /\ UNCHANGED accountVars
  /\ UNCHANGED pageVars

\* the second store write throws (store unreachable): catch answers 500
CreateOrderSetTotalFails(r) ==
  /\ reqs[r].pc = "created"
  /\ response' = Res("createOrder", 500, reqs[r].cred, reqs[r].orderId,
                     NoOrder, "", "", reqs[r].request)
  /\ reqs' = [reqs EXCEPT ![r] = Idle]
  /\ UNCHANGED <<unitPrice, orders, expected>>
  /\ UNCHANGED accountVars
  /\ UNCHANGED pageVars

(***************************************************************************)
(* updateOrderStatus                                                       *)
(***************************************************************************)
\* PATCH /orders/status/:id without the check of the next status
updateOrderStatusGate_NoTerminalCheck(cred, id) ==
  IF autenticarToken(cred) # 0 THEN autenticarToken(cred)
  ELSE IF authorizeRole({"ADMIN"}, cred) # 0 THEN authorizeRole({"ADMIN"}, cred)
  ELSE IF id \notin OrderIds THEN 404
  ELSE 0

\* the status code that ends PATCH /orders/status/:id before its write, or 0
updateOrderStatusGate(cred, id) ==
  IF autenticarToken(cred) # 0 THEN autenticarToken(cred)
  ELSE IF authorizeRole({"ADMIN"}, cred) # 0 THEN authorizeRole({"ADMIN"}, cred)
  ELSE IF id \notin OrderIds THEN 404
  ELSE IF STATUS_FLOW[orders[id].status] = NULL THEN 400
  ELSE 0

\* what findUnique returned, when the handler got that far
statusSeen(cred, id) ==
  IF autenticarToken(cred) = 0 /\ authorizeRole({"ADMIN"}, cred) = 0
     /\ id \in OrderIds
  THEN orders[id].status ELSE ""

UpdateOrderStatusRejected(cred, id) ==
  /\ updateOrderStatusGate(cred, id) # 0
  /\ response' = Res("updateOrderStatus", updateOrderStatusGate(cred, id),
                     cred, id, NoOrder, statusSeen(cred, id), "", NoBody)
  /\ UNCHANGED <<unitPrice, orders, reqs, expected>>
  /\ UNCHANGED accountVars
  /\ UNCHANGED pageVars

\* findUnique and the lookup of the next status
UpdateOrderStatusRead(r, cred, id) ==
  /\ reqs[r].pc = "idle"
  /\ updateOrderStatusGate(cred, id) = 0
  /\ reqs' = [reqs EXCEPT ![r] =
                [Idle EXCEPT !.pc = "read", !.caller = cred.id, !.cred = cred,
                             !.orderId = id,
                             !.seen = orders[id].status,
                             !.nextStatus = STATUS_FLOW[orders[id].status]]]
  /\ response' = NoResponse
  /\ UNCHANGED <<unitPrice, orders, expected>>
  /\ UNCHANGED accountVars
  /\ UNCHANGED pageVars

\* prisma.order.update({where: {id}, data: {status: nextStatus}})
UpdateOrderStatusWrite(r) ==
  /\ reqs[r].pc = "read"
  /\ orders' = [orders EXCEPT ![reqs[r].orderId].status = reqs[r].nextStatus]
  /\ response' = Res("updateOrderStatus", 200, reqs[r].cred, reqs[r].orderId,
                     orders'[reqs[r].orderId], reqs[r].seen,
                     orders[reqs[r].orderId].status, NoBody)
  /\ reqs' = [reqs EXCEPT ![r] = Idle]
  /\ UNCHANGED <<unitPrice, expected>>
  /\ UNCHANGED accountVars
  /\ UNCHANGED pageVars


(***************************************************************************)
(* getMyOrderById                                                          *)
(***************************************************************************)
\* GET /orders/my/:id without the ownership check
getMyOrderByIdCode_NoOwnerCheck(cred, id) ==
  IF autenticarToken(cred) # 0 THEN autenticarToken(cred)
  ELSE IF authorizeRole({"CLIENT"}, cred) # 0 THEN authorizeRole({"CLIENT"}, cred)
  ELSE IF id \notin OrderIds THEN 404
  ELSE 200

\* GET /orders/my/:id comparing the owner of a row that may be missing
getMyOrderByIdCode_MissingAsForbidden(cred, id) ==
  IF autenticarToken(cred) # 0 THEN autenticarToken(cred)
  ELSE IF authorizeRole({"CLIENT"}, cred) # 0 THEN authorizeRole({"CLIENT"}, cred)
  ELSE IF id \notin OrderIds THEN 403
  ELSE IF orders[id].clientId # cred.id THEN 403
  ELSE 200

getMyOrderByIdCode(cred, id) ==
  IF autenticarToken(cred) # 0 THEN autenticarToken(cred)
  ELSE IF authorizeRole({"CLIENT"}, cred) # 0 THEN authorizeRole({"CLIENT"}, cred)
  ELSE IF id \notin OrderIds THEN 404
  ELSE IF orders[id].clientId # cred.id THEN 403
  ELSE 200

\* one read of the store, then the answer
GetMyOrderById(cred, id) ==
  /\ response' = Res("getMyOrderById", getMyOrderByIdCode(cred, id), cred, id,
                     IF getMyOrderByIdCode(cred, id) = 200 THEN orders[id]
                     ELSE NoOrder,
                     "", "", NoBody)
  /\ UNCHANGED <<unitPrice, orders, reqs, expected>>
  /\ UNCHANGED accountVars
  /\ UNCHANGED pageVars

(***************************************************************************)
(* getMyOrders                                                             *)
(***************************************************************************)
getMyOrdersCode(cred) ==
  IF autenticarToken(cred) # 0 THEN autenticarToken(cred)
  ELSE IF authorizeRole({"CLIENT"}, cred) # 0 THEN authorizeRole({"CLIENT"}, cred)
  ELSE 200

\* the arrangements of the rows of the given ids, newest first; rows of the
\* same createdAt come in any order
NewestFirst(ids) ==
  {l \in [1 .. Cardinality(ids) -> {orders[o] : o \in ids}] :
     /\ \A i, j \in 1 .. Cardinality(ids) : i # j => l[i].id # l[j].id
     /\ \A i, j \in 1 .. Cardinality(ids) :
          i < j => l[i].createdAt >= l[j].createdAt}

\* findMany without the where clause
findManyMyOrders_NoWhere(clientId) == NewestFirst(OrderIds)

\* prisma.order.findMany({where: {clientId}, orderBy: {createdAt: "desc"}}):
\* the arrays the store can return
findManyMyOrders(clientId) ==
  NewestFirst({o \in OrderIds : orders[o].clientId = clientId})

\* one read of the store, then the answer
GetMyOrders(cred) ==
  /\ IF getMyOrdersCode(cred) = 200
     THEN \E l \in findManyMyOrders(cred.id) :
            response' = ResData("getMyOrders", 200, cred, NoBody, l)
     ELSE response' = ResData("getMyOrders", getMyOrdersCode(cred), cred,
                              NoBody, <<>>)
  /\ UNCHANGED <<unitPrice, orders, reqs, expected>>
  /\ UNCHANGED accountVars
  /\ UNCHANGED pageVars

(***************************************************************************)
(* updateItem (PUT /items/:id): the catalog price changes                  *)
(***************************************************************************)
\* itemSchema: unitPrice is z.number().positive()
updateItemCode(cred, id, price) ==
  IF autenticarToken(cred) # 0 THEN autenticarToken(cred)
  ELSE IF authorizeRole({"ADMIN"}, cred) # 0 THEN authorizeRole({"ADMIN"}, cred)
  ELSE IF ~(price > 0) THEN 400
  ELSE IF id \notin DOMAIN unitPrice THEN 404
  ELSE 200

UpdateItem(cred, id, price) ==
  /\ unitPrice' = IF updateItemCode(cred, id, price) = 200
                  THEN [unitPrice EXCEPT ![id] = price] ELSE unitPrice
  /\ response' = Res("updateItem", updateItemCode(cred, id, price), cred, id,
                     NoOrder, "", "", NoBody)
  /\ UNCHANGED <<orders, reqs, expected>>
  /\ UNCHANGED accountVars
  /\ UNCHANGED pageVars

(***************************************************************************)
(* Users: createUser, login, logout, updateUser.  An e-mail address is a   *)
(* number; the seed gives user u the address u.                            *)
(***************************************************************************)
\* a body of the user routes; "" and 0 stand for a key the body leaves out
UserBody(name, email, password, type, wellFormed) ==
  [name |-> name, email |-> email, password |-> password, type |-> type,
   wellFormed |-> wellFormed]

\* validate(userSchema) and validate(updateUserSchema): 0 or 400
validateUser(body) == IF body.wellFormed THEN 0 ELSE 400

\* the user of an e-mail address, 0 when no user has it
userByEmail(email) ==
  IF \E u \in 1 .. Len(users) : users[u].email = email
  THEN CHOOSE u \in 1 .. Len(users) : users[u].email = email
  ELSE 0

\* the data of prisma.user.create, with the type of the body when it has one
createUserData_TypeFromBody(body) ==
  [name |-> body.name, email |-> body.email, password |-> hash(body.password),
   type |-> IF body.type # "" THEN body.type ELSE "CLIENT"]

\* the data of prisma.user.create
createUserData(body) ==
  [name |-> body.name, email |-> body.email, password |-> hash(body.password),
   type |-> "CLIENT"]

\* POST /users/register: 400 from validate, 400 for an e-mail in use (P2002)
createUserCode(body) ==
  IF validateUser(body) # 0 THEN validateUser(body)
  ELSE IF userByEmail(createUserData(body).email) # 0 THEN 400
  ELSE 201

CreateUser(body, limit) ==
  /\ createUserCode(body) = 201 => Len(users) < limit
  /\ users' = IF createUserCode(body) = 201
              THEN Append(users, createUserData(body)) ELSE users
  /\ response' = ResData("createUser", createUserCode(body), NoHeader, body,
                         IF createUserCode(body) = 201
                         THEN <<createUserData(body)>> ELSE <<>>)
  /\ UNCHANGED <<unitPrice, orders, reqs, expected>>
  /\ UNCHANGED <<issued, blacklist, addresses, catalog>>
  /\ UNCHANGED pageVars

\* POST /users/login
loginCode(email, password) ==
  IF userByEmail(email) = 0 THEN 401
  ELSE IF ~compare(password, users[userByEmail(email)].password) THEN 401
  ELSE 200

\* the token is signed at time iat
Login(email, password, iat) ==
  /\ issued' = IF loginCode(email, password) = 200
               THEN issued \cup {Token(userByEmail(email),
                                       users[userByEmail(email)].type, iat)}
               ELSE issued
  /\ response' = ResData("login", loginCode(email, password), NoHeader,
                         UserBody("", email, password, "", TRUE),
                         IF loginCode(email, password) = 200
                         THEN <<Token(userByEmail(email),
                                      users[userByEmail(email)].type, iat)>>
                         ELSE <<>>)
  /\ UNCHANGED <<unitPrice, orders, reqs, expected>>
  /\ UNCHANGED <<users, blacklist, addresses, catalog>>
  /\ UNCHANGED pageVars

\* POST /users/logout: blacklistToken pushes the token of the header
Logout(cred) ==
  /\ blacklist' = IF autenticarToken(cred) = 0 THEN blacklist \cup {cred}
                  ELSE blacklist
  /\ response' = ResData("logout",
                         IF autenticarToken(cred) = 0 THEN 200
                         ELSE autenticarToken(cred),
                         cred, NoBody, <<>>)
  /\ UNCHANGED <<unitPrice, orders, reqs, expected>>
  /\ UNCHANGED <<users, issued, addresses, catalog>>
  /\ UNCHANGED pageVars

\* the data of prisma.user.update, with the type of the body
updateUserData_WithType(body) ==
  [name |-> body.name, email |-> body.email,
   password |-> IF body.password # "" THEN hash(body.password) ELSE <<>>,
   type |-> body.type]

\* the data of prisma.user.update: name, phone, e-mail, and the hashed
\* password when the body has one
updateUserData(body) ==
  [name |-> body.name, email |-> body.email,
   password |-> IF body.password # "" THEN hash(body.password) ELSE <<>>,
   type |-> ""]

\* the row after prisma.user.update: the keys the data leaves out stay
prismaUserUpdate(row, data) ==
  [name |-> IF data.name # "" THEN data.name ELSE row.name,
   email |-> IF data.email # 0 THEN data.email ELSE row.email,
   password |-> IF data.password # <<>> THEN data.password ELSE row.password,
   type |-> IF data.type # "" THEN data.type ELSE row.type]

\* PUT /users/:id without the ownership check of the controller
updateUserCode_NoOwnerCheck(cred, id, body) ==
  IF autenticarToken(cred) # 0 THEN autenticarToken(cred)
  ELSE IF authorizeRole({"ADMIN", "CLIENT"}, cred) # 0
    THEN authorizeRole({"ADMIN", "CLIENT"}, cred)
  ELSE IF validateUser(body) # 0 THEN validateUser(body)
  ELSE IF id \notin 1 .. Len(users) THEN 500
  ELSE IF userByEmail(updateUserData(body).email) \notin {0, id} THEN 400
  ELSE 200

\* PUT /users/:id: the chain, the ownership check, then the update, which
\* throws P2025 (500) for a missing row and P2002 (400) for an e-mail in use
updateUserCode(cred, id, body) ==
  IF autenticarToken(cred) # 0 THEN autenticarToken(cred)
  ELSE IF authorizeRole({"ADMIN", "CLIENT"}, cred) # 0
    THEN authorizeRole({"ADMIN", "CLIENT"}, cred)
  ELSE IF validateUser(body) # 0 THEN validateUser(body)
  ELSE IF cred.type = "CLIENT" /\ cred.id # id THEN 403
  ELSE IF id \notin 1 .. Len(users) THEN 500
  ELSE IF userByEmail(updateUserData(body).email) \notin {0, id} THEN 400
  ELSE 200

UpdateUser(cred, id, body) ==
  /\ users' = IF updateUserCode(cred, id, body) = 200
              THEN [users EXCEPT ![id] = prismaUserUpdate(@, updateUserData(body))]
              ELSE users
  /\ response' = [ResData("updateUser", updateUserCode(cred, id, body), cred,
                          body,
                          IF updateUserCode(cred, id, body) = 200
                          THEN <<users'[id]>> ELSE <<>>)
                    EXCEPT !.orderId = id]
  /\ UNCHANGED <<unitPrice, orders, reqs, expected>>
  /\ UNCHANGED <<issued, blacklist, addresses, catalog>>
  /\ UNCHANGED pageVars

(***************************************************************************)
(* Addresses of the authenticated user.  The table is a set of rows and    *)
(* the next value of its id sequence; userId is unique.  A street is the   *)
(* sequence of its characters.                                             *)
(***************************************************************************)
\* a body of POST and PUT /addresses: the street stands for the fields of
\* the schema; userId and id are keys the schema does not name, 0 when the
\* body leaves them out
AddressBody(street, userId, id) ==
  [street |-> street, userId |-> userId, id |-> id]

\* addressSchema: street has at least 3 characters
addressSchemaOk(body) == Len(body.street) >= 3

\* schema.parse returning the body with the keys the schema does not name
addressSchemaParse_Passthrough(body) == body

\* schema.parse: z.object strips the keys the schema does not name
addressSchemaParse(body) == [body EXCEPT !.userId = 0, !.id = 0]

\* validate(addressSchema): 0 or 400
validateAddress(body) == IF addressSchemaOk(body) THEN 0 ELSE 400

\* prisma.address.findUnique({where: {userId}}): the rows found (one at most)
addressOf(userId) == {a \in addresses.rows : a.userId = userId}

\* {userId: req.user.id, ...req.body}: a key of the body wins over userId
createMyAddressData(cred, body) ==
  [id |-> addressSchemaParse(body).id,
   userId |-> IF addressSchemaParse(body).userId # 0
              THEN addressSchemaParse(body).userId ELSE cred.id,
   street |-> addressSchemaParse(body).street]

\* the row prisma.address.create inserts: the id of the data or the next
\* value of the sequence
prismaAddressCreate(data) ==
  [id |-> IF data.id # 0 THEN data.id ELSE addresses.nextId,
   userId |-> data.userId, street |-> data.street]

\* a row breaks a unique constraint of the table (P2002)
addressUniqueViolated(row, others) ==
  \E a \in others : a.id = row.id \/ a.userId = row.userId

\* the row prisma.address.update writes over old: data is req.body
prismaAddressUpdate(old, body) ==
  [id |-> IF addressSchemaParse(body).id # 0
          THEN addressSchemaParse(body).id ELSE old.id,
   userId |-> IF addressSchemaParse(body).userId # 0
              THEN addressSchemaParse(body).userId ELSE old.userId,
   street |-> addressSchemaParse(body).street]

\* GET /addresses/me
getMyAddressCode(cred) ==
  IF autenticarToken(cred) # 0 THEN autenticarToken(cred)
  ELSE IF addressOf(cred.id) = {} THEN 404
  ELSE 200

GetMyAddress(cred) ==
  /\ response' = ResData("getMyAddress", getMyAddressCode(cred), cred, NoBody,
                         IF getMyAddressCode(cred) = 200
                         THEN <<CHOOSE a \in addressOf(cred.id) : TRUE>>
                         ELSE <<>>)
  /\ UNCHANGED <<unitPrice, orders, reqs, expected>>
  /\ UNCHANGED accountVars
  /\ UNCHANGED pageVars

\* the status code that ends POST /addresses before its insert, or 0
createMyAddressGate(cred, body) ==
  IF autenticarToken(cred) # 0 THEN autenticarToken(cred)
  ELSE IF validateAddress(body) # 0 THEN validateAddress(body)
  ELSE IF addressOf(cred.id) # {} THEN 400
  ELSE 0

CreateMyAddressRejected(cred, body) ==
  /\ createMyAddressGate(cred, body) # 0
  /\ response' = ResData("createMyAddress", createMyAddressGate(cred, body),
                         cred, body, <<>>)
  /\ UNCHANGED <<unitPrice, orders, reqs, expected>>
  /\ UNCHANGED accountVars
  /\ UNCHANGED pageVars

\* findUnique found no address of the caller; limit bounds the ids the
\* sequence hands out
CreateMyAddressCheck(r, cred, body, limit) ==
  /\ reqs[r].pc = "idle"
  /\ addresses.nextId
       + Cardinality({x \in Reqs : reqs[x].pc = "createAddress"}) <= limit
  /\ createMyAddressGate(cred, body) = 0
  /\ reqs' = [reqs EXCEPT ![r] =
                [Idle EXCEPT !.pc = "createAddress", !.caller = cred.id,
                             !.cred = cred, !.request = body]]
  /\ response' = NoResponse
  /\ UNCHANGED <<unitPrice, orders, expected>>
  /\ UNCHANGED accountVars
  /\ UNCHANGED pageVars

\* prisma.address.create: 201 with the row, or 500 from the catch when the
\* insert breaks a unique constraint (the value it took from the sequence is
\* spent)
CreateMyAddressInsert(r) ==
  /\ reqs[r].pc = "createAddress"
  /\ LET row == prismaAddressCreate(
                  createMyAddressData(reqs[r].cred, reqs[r].request)) IN
       IF addressUniqueViolated(row, addresses.rows)
       THEN /\ response' = ResData("createMyAddress", 500, reqs[r].cred,
                                   reqs[r].request, <<>>)
            /\ addresses' = [addresses EXCEPT
                               !.nextId = IF row.id = @ THEN @ + 1 ELSE @]
       ELSE /\ addresses' = [rows |-> addresses.rows \cup {row},
                             nextId |-> IF row.id = addresses.nextId
                                        THEN addresses.nextId + 1
                                        ELSE addresses.nextId]
            /\ response' = ResData("createMyAddress", 201, reqs[r].cred,
                                   reqs[r].request, <<row>>)
  /\ reqs' = [reqs EXCEPT ![r] = Idle]
  /\ UNCHANGED <<unitPrice, orders, expected>>
  /\ UNCHANGED <<users, issued, blacklist, catalog>>
  /\ UNCHANGED pageVars

\* the status code that ends PUT /addresses before its update, or 0
updateMyAddressGate(cred, body) ==
  IF autenticarToken(cred) # 0 THEN autenticarToken(cred)
  ELSE IF validateAddress(body) # 0 THEN validateAddress(body)
  ELSE IF addressOf(cred.id) = {} THEN 404
  ELSE 0

UpdateMyAddressRejected(cred, body) ==
  /\ updateMyAddressGate(cred, body) # 0
  /\ response' = ResData("updateMyAddress", updateMyAddressGate(cred, body),
                         cred, body, <<>>)
  /\ UNCHANGED <<unitPrice, orders, reqs, expected>>
  /\ UNCHANGED accountVars
  /\ UNCHANGED pageVars

\* findUnique found the address of the caller
UpdateMyAddressCheck(r, cred, body) ==
  /\ reqs[r].pc = "idle"
  /\ updateMyAddressGate(cred, body) = 0
  /\ reqs' = [reqs EXCEPT ![r] =
                [Idle EXCEPT !.pc = "updateAddress", !.caller = cred.id,
                             !.cred = cred, !.request = body]]
  /\ response' = NoResponse
  /\ UNCHANGED <<unitPrice, orders, expected>>
  /\ UNCHANGED accountVars
  /\ UNCHANGED pageVars

\* prisma.address.update({where: {userId}, data: req.body}): 200 with the
\* row, or 500 from the catch when the row is gone (P2025) or the update
\* breaks a unique constraint
UpdateMyAddressWrite(r) ==
  /\ reqs[r].pc = "updateAddress"
  /\ IF addressOf(reqs[r].cred.id) = {}
     THEN /\ response' = ResData("updateMyAddress", 500, reqs[r].cred,
                                 reqs[r].request, <<>>)
          /\ UNCHANGED addresses
     ELSE LET old == CHOOSE a \in addressOf(reqs[r].cred.id) : TRUE
              row == prismaAddressUpdate(old, reqs[r].request) IN
       IF addressUniqueViolated(row, addresses.rows \ {old})
       THEN /\ response' = ResData("updateMyAddress", 500, reqs[r].cred,
                                   reqs[r].request, <<>>)
            /\ UNCHANGED addresses
       ELSE /\ addresses' = [addresses EXCEPT
                               !.rows = (addresses.rows \ {old}) \cup {row}]
            /\ response' = ResData("updateMyAddress", 200, reqs[r].cred,
                                   reqs[r].request, <<row>>)
  /\ reqs' = [reqs EXCEPT ![r] = Idle]
  /\ UNCHANGED <<unitPrice, orders, expected>>
  /\ UNCHANGED <<users, issued, blacklist, catalog>>
  /\ UNCHANGED pageVars

\* the status code that ends DELETE /addresses before its delete, or 0
deleteMyAddressGate(cred) ==
  IF autenticarToken(cred) # 0 THEN autenticarToken(cred)
  ELSE IF addressOf(cred.id) = {} THEN 404
  ELSE 0

DeleteMyAddressRejected(cred) ==
  /\ deleteMyAddressGate(cred) # 0
  /\ response' = ResData("deleteMyAddress", deleteMyAddressGate(cred), cred,
                         NoBody, <<>>)
  /\ UNCHANGED <<unitPrice, orders, reqs, expected>>
  /\ UNCHANGED accountVars
  /\ UNCHANGED pageVars

DeleteMyAddressCheck(r, cred) ==
  /\ reqs[r].pc = "idle"
  /\ deleteMyAddressGate(cred) = 0
  /\ reqs' = [reqs EXCEPT ![r] =
                [Idle EXCEPT !.pc = "deleteAddress", !.caller = cred.id,
                             !.cred = cred]]
  /\ response' = NoResponse
  /\ UNCHANGED <<unitPrice, orders, expected>>
  /\ UNCHANGED accountVars
  /\ UNCHANGED pageVars

\* prisma.address.delete({where: {userId}}): 200, or 500 from the catch
\* when the row is gone (P2025)
DeleteMyAddressWrite(r) ==
  /\ reqs[r].pc = "deleteAddress"
  /\ addresses' = [addresses EXCEPT !.rows = @ \ addressOf(reqs[r].cred.id)]
  /\ response' = ResData("deleteMyAddress",
                         IF addressOf(reqs[r].cred.id) = {} THEN 500 ELSE 200,
                         reqs[r].cred, NoBody, <<>>)
  /\ reqs' = [reqs EXCEPT ![r] = Idle]
  /\ UNCHANGED <<unitPrice, orders, expected>>
  /\ UNCHANGED <<users, issued, blacklist, catalog>>
  /\ UNCHANGED pageVars

(***************************************************************************)
(* Catalog: the category routes and the create and delete of the item      *)
(* routes.  A description is the sequence of its characters; the           *)
(* description and the image of an item are left out.                      *)
(***************************************************************************)
\* f with x mapped to v (x joins the domain) and f without x
With(f, x, v) == [y \in DOMAIN f \cup {x} |-> IF y = x THEN v ELSE f[y]]
Without(f, x) == [y \in DOMAIN f \ {x} |-> f[y]]

\* categorySchema and itemSchema: description has at least 3 characters
descriptionOk(description) == Len(description) >= 3

\* the orders without the lines of the given items (ON DELETE CASCADE)
withoutLinesOf(items) ==
  [o \in DOMAIN orders |->
     [orders[o] EXCEPT
        !.orderItems = SelectSeq(@, LAMBDA l : l.itemId \notin items)]]

\* an order line references one of the items
hasLinesOf(items) ==
  \E o \in OrderIds : \E i \in 1 .. Len(orders[o].orderItems) :
    orders[o].orderItems[i].itemId \in items

\* the items of a category
itemsOf(categoryId) ==
  {i \in DOMAIN catalog.categoryId : catalog.categoryId[i] = categoryId}

\* POST /categories with validate ahead of the two other middlewares
createCategoryCode_ValidateFirst(cred, description) ==
  IF ~descriptionOk(description) THEN 400
  ELSE IF autenticarToken(cred) # 0 THEN autenticarToken(cred)
  ELSE IF authorizeRole({"ADMIN"}, cred) # 0 THEN authorizeRole({"ADMIN"}, cred)
  ELSE 201

\* POST /categories
createCategoryCode(cred, description) ==
  IF autenticarToken(cred) # 0 THEN autenticarToken(cred)
  ELSE IF authorizeRole({"ADMIN"}, cred) # 0 THEN authorizeRole({"ADMIN"}, cred)
  ELSE IF ~descriptionOk(description) THEN 400
  ELSE 201

CreateCategory(cred, description, limit) ==
  /\ createCategoryCode(cred, description) = 201
       => catalog.nextCategoryId <= limit
  /\ catalog' = IF createCategoryCode(cred, description) = 201
                THEN [catalog EXCEPT
                        !.categories = With(@, catalog.nextCategoryId, description),
                        !.nextCategoryId = @ + 1]
                ELSE catalog
  /\ response' = ResData("createCategory", createCategoryCode(cred, description),
                         cred, NoBody, <<>>)
  /\ UNCHANGED <<unitPrice, orders, reqs, expected>>
  /\ UNCHANGED <<users, issued, blacklist, addresses>>
  /\ UNCHANGED pageVars

\* PUT /categories/:id: P2025 (404) for a missing row
updateCategoryCode(cred, id, description) ==
  IF autenticarToken(cred) # 0 THEN autenticarToken(cred)
  ELSE IF authorizeRole({"ADMIN"}, cred) # 0 THEN authorizeRole({"ADMIN"}, cred)
  ELSE IF ~descriptionOk(description) THEN 400
  ELSE IF id \notin DOMAIN catalog.categories THEN 404
  ELSE 200

UpdateCategory(cred, id, description) ==
  /\ catalog' = IF updateCategoryCode(cred, id, description) = 200
                THEN [catalog EXCEPT !.categories[id] = description]
                ELSE catalog
  /\ response' = [ResData("updateCategory",
                          updateCategoryCode(cred, id, description), cred,
                          NoBody, <<>>) EXCEPT !.orderId = id]
  /\ UNCHANGED <<unitPrice, orders, reqs, expected>>
  /\ UNCHANGED <<users, issued, blacklist, addresses>>
  /\ UNCHANGED pageVars

\* DELETE /categories/:id: P2025 (404) for a missing row; when items belong
\* to the category the store refuses (500) or deletes them and their order
\* lines too, as its foreign keys say
deleteCategoryCode(cred, id, onDelete) ==
  IF autenticarToken(cred) # 0 THEN autenticarToken(cred)
  ELSE IF authorizeRole({"ADMIN"}, cred) # 0 THEN authorizeRole({"ADMIN"}, cred)
  ELSE IF id \notin DOMAIN catalog.categories THEN 404
  ELSE IF itemsOf(id) # {} /\ onDelete = "Restrict" THEN 500
  ELSE 200

DeleteCategory(cred, id, onDelete) ==
  /\ IF deleteCategoryCode(cred, id, onDelete) = 200
     THEN /\ catalog' =
               [catalog EXCEPT
                  !.categories = Without(@, id),
                  !.categoryId = [i \in DOMAIN @ \ itemsOf(id) |-> @[i]]]
          /\ unitPrice' = [i \in DOMAIN unitPrice \ itemsOf(id) |-> unitPrice[i]]
          /\ orders' = withoutLinesOf(itemsOf(id))
     ELSE UNCHANGED <<catalog, unitPrice, orders>>
  /\ response' = [ResData("deleteCategory",
                          deleteCategoryCode(cred, id, onDelete), cred, NoBody,
                          <<>>) EXCEPT !.orderId = id]
  /\ UNCHANGED <<reqs, expected>>
  /\ UNCHANGED <<users, issued, blacklist, addresses>>
  /\ UNCHANGED pageVars

\* POST /items: 400 from validate, 500 from the catch when no category has
\* the categoryId
createItemCode(cred, price, categoryId) ==
  IF autenticarToken(cred) # 0 THEN autenticarToken(cred)
  ELSE IF authorizeRole({"ADMIN"}, cred) # 0 THEN authorizeRole({"ADMIN"}, cred)
  ELSE IF ~(price > 0) THEN 400
  ELSE IF categoryId \notin DOMAIN catalog.categories THEN 500
  ELSE 201

CreateItem(cred, price, categoryId, limit) ==
  /\ createItemCode(cred, price, categoryId) = 201 => catalog.nextItemId <= limit
  /\ IF createItemCode(cred, price, categoryId) = 201
     THEN /\ unitPrice' = With(unitPrice, catalog.nextItemId, price)
          /\ catalog' = [catalog EXCEPT
                           !.categoryId = With(@, catalog.nextItemId, categoryId),
                           !.nextItemId = @ + 1]
     ELSE UNCHANGED <<unitPrice, catalog>>
  /\ response' = ResData("createItem", createItemCode(cred, price, categoryId),
                         cred, NoBody, <<>>)
  /\ UNCHANGED <<orders, reqs, expected>>
  /\ UNCHANGED <<users, issued, blacklist, addresses>>
  /\ UNCHANGED pageVars

\* DELETE /items/:id: P2025 (404) for a missing row; when order lines name
\* the item the store refuses (500) or deletes them too
deleteItemCode(cred, id, onDelete) ==
  IF autenticarToken(cred) # 0 THEN autenticarToken(cred)
  ELSE IF authorizeRole({"ADMIN"}, cred) # 0 THEN authorizeRole({"ADMIN"}, cred)
  ELSE IF id \notin DOMAIN unitPrice THEN 404
  ELSE IF hasLinesOf({id}) /\ onDelete = "Restrict" THEN 500
  ELSE 200

DeleteItem(cred, id, onDelete) ==
  /\ IF deleteItemCode(cred, id, onDelete) = 200
     THEN /\ unitPrice' = Without(unitPrice, id)
          /\ catalog' = [catalog EXCEPT !.categoryId = Without(@, id)]
          /\ orders' = withoutLinesOf({id})
     ELSE UNCHANGED <<catalog, unitPrice, orders>>
  /\ response' = [ResData("deleteItem", deleteItemCode(cred, id, onDelete),
                          cred, NoBody, <<>>) EXCEPT !.orderId = id]
  /\ UNCHANGED <<reqs, expected>>
  /\ UNCHANGED <<users, issued, blacklist, addresses>>
  /\ UNCHANGED pageVars

(***************************************************************************)
(* The catch of the controllers: a store operation throws while the store  *)
(* is out of reach.                                                        *)
(***************************************************************************)
\* errors the store client throws when the store cannot be reached
StoreErrors ==
  {[code |-> "P1001", message |-> "Can't reach database server"],
   [code |-> "P2024", message |-> "Timed out fetching a new connection"]}

\* the body of the 500 answer: res.status(500).json({ error: error.message })
catchBody(error) == <<error.message>>

\* POST /orders: prisma.order.create throws
CreateOrderFails(cred, body, error) ==
  /\ createOrderGate(cred, body) = 0
  /\ response' = [Res("createOrder", 500, cred, 0, NoOrder, "", "", body)
                    EXCEPT !.data = catchBody(error)]
  /\ UNCHANGED <<unitPrice, orders, reqs, expected>>
  /\ UNCHANGED accountVars
  /\ UNCHANGED pageVars

\* GET /orders/my: prisma.order.findMany throws
GetMyOrdersFails(cred, error) ==
  /\ getMyOrdersCode(cred) = 200
  /\ response' = ResData("getMyOrders", 500, cred, NoBody, catchBody(error))
  /\ UNCHANGED <<unitPrice, orders, reqs, expected>>
  /\ UNCHANGED accountVars
  /\ UNCHANGED pageVars

\* POST /addresses: prisma.address.findUnique throws
CreateMyAddressFails(cred, body, error) ==
  /\ autenticarToken(cred) = 0
  /\ validateAddress(body) = 0
  /\ response' = ResData("createMyAddress", 500, cred, body, catchBody(error))
  /\ UNCHANGED <<unitPrice, orders, reqs, expected>>
  /\ UNCHANGED accountVars
  /\ UNCHANGED pageVars

(***************************************************************************)
(* The arithmetic of the total.  unitPrice and total are JavaScript        *)
(* numbers (the pages call toFixed on them): IEEE-754 doubles.  A double   *)
(* is the sequence of the bits, lowest first, of its multiple of           *)
(* 2^-FracBits; a product or a sum is computed exactly and then rounded to *)
(* MantissaBits significant bits, ties to even.                            *)
(***************************************************************************)
FracBits == 64
MantissaBits == 53

\* bits are handled in limbs of LimbBits bits, so that every intermediate
\* number has fewer than 31 bits
LimbBits == 15
Limb == 2 ^ LimbBits

Zeros(k) == [i \in 1 .. k |-> 0]
bitAt(b, i) == IF i \in 1 .. Len(b) THEN b[i] ELSE 0

\* the position of the highest bit set, 0 when none is
topBit(b) ==
  IF \E i \in 1 .. Len(b) : b[i] = 1
  THEN CHOOSE i \in 1 .. Len(b) : b[i] = 1 /\ \A j \in (i + 1) .. Len(b) : b[j] = 0
  ELSE 0

\* the bits without the zeros above the highest bit set
normBits(b) == SubSeq(b, 1, topBit(b))

\* the number a limb of bits denotes: the bits from position from + 1 on
limbAt(b, from) ==
  LET value[k \in 0 .. LimbBits] ==
        IF k = 0 THEN 0
        ELSE value[k - 1] + bitAt(b, from + k) * 2 ^ (k - 1)
  IN value[LimbBits]

\* the limbs of a bit sequence, lowest first, and the bits of limbs
toLimbs(b) ==
  [j \in 1 .. ((Len(b) + LimbBits - 1) \div LimbBits) |->
     limbAt(b, (j - 1) * LimbBits)]

toBits(l) ==
  normBits([i \in 1 .. (Len(l) * LimbBits) |->
              (l[((i - 1) \div LimbBits) + 1] \div 2 ^ ((i - 1) % LimbBits)) % 2])

\* the bits of a natural number, lowest first
natBits(n) == toBits(<<n % Limb, (n \div Limb) % Limb, n \div (Limb * Limb)>>)

\* exact sum of two limb sequences
RECURSIVE addFrom(_, _, _, _)
addFrom(a, b, j, carry) ==
  IF j > Len(a) /\ j > Len(b) THEN <<carry>>
  ELSE <<(bitAt(a, j) + bitAt(b, j) + carry) % Limb>>
         \o addFrom(a, b, j + 1, (bitAt(a, j) + bitAt(b, j) + carry) \div Limb)

addBits(a, b) == toBits(addFrom(toLimbs(a), toLimbs(b), 1, 0))

\* exact product of a limb sequence and a small natural number
RECURSIVE mulFrom(_, _, _, _)
mulFrom(a, q, j, carry) ==
  IF j > Len(a) THEN <<carry>>
  ELSE <<(a[j] * q + carry) % Limb>>
         \o mulFrom(a, q, j + 1, (a[j] * q + carry) \div Limb)

mulBits(b, q) == toBits(mulFrom(toLimbs(b), q, 1, 0))

\* the remainder, then the limbs of the quotient, of a limb sequence by a
\* small natural number: long division from the highest limb down
RECURSIVE divFrom(_, _, _, _)
divFrom(a, d, j, rem) ==
  IF j = 0 THEN <<rem>>
  ELSE Append(divFrom(a, d, j - 1, (rem * Limb + a[j]) % d),
              (rem * Limb + a[j]) \div d)

divBits(b, d) ==
  [q |-> toBits(Tail(divFrom(toLimbs(b), d, Len(toLimbs(b)), 0))),
   rem |-> Head(divFrom(toLimbs(b), d, Len(toLimbs(b)), 0))]

\* round to nearest, ties to even; inexact says that the value is a little
\* above the bits given
roundBits(b, inexact) ==
  LET top == topBit(b)
      drop == top - MantissaBits
  IN IF drop <= 0 THEN normBits(b)
     ELSE LET guard == b[drop]
              sticky == inexact \/ \E i \in 1 .. (drop - 1) : b[i] = 1
              kept == Zeros(drop) \o SubSeq(b, drop + 1, top)
          IN IF guard = 1 /\ (sticky \/ b[drop + 1] = 1)
             THEN normBits(addBits(kept, Zeros(drop) \o <<1>>))
             ELSE kept

\* the double of a decimal literal or of a JSON number of that many cents
toDouble(cents) ==
  LET d == divBits(Zeros(FracBits) \o natBits(cents), 100)
  IN roundBits(d.q, d.rem # 0)

\* x * n and x + y of JavaScript, n a whole number
mulDouble(x, n) == roundBits(mulBits(x, n), FALSE)
addDouble(x, y) == roundBits(addBits(x, y), FALSE)

\* order.orderItems.reduce((sum, oi) => sum + oi.item.unitPrice * oi.quantity, 0)
\* on doubles, the prices given in cents
RECURSIVE reduceTotalDouble(_, _, _)
reduceTotalDouble(orderItems, price, sum) ==
  IF orderItems = <<>> THEN sum
  ELSE reduceTotalDouble(
         Tail(orderItems), price,
         addDouble(sum, mulDouble(toDouble(price[Head(orderItems).itemId]),
                                  IntValue(Head(orderItems).quantity))))

\* createOrder for a body the checks accept: the total it computes and
\* stores, as a double
CreateOrderTotal(cred, body) ==
  /\ createOrderGate(cred, body) = 0
  /\ ~prismaOrderCreateThrows(createOrderData(cred, body))
  /\ response' = ResData("createOrder", 201, cred, body,
                         <<reduceTotalDouble(createOrderData(cred, body).orderItems,
                                             unitPrice, <<>>)>>)
  /\ UNCHANGED <<unitPrice, orders, reqs, expected>>
  /\ UNCHANGED accountVars
  /\ UNCHANGED pageVars

(***************************************************************************)
(* The cart of the browser (CartContext.jsx).  A cart line keeps the id    *)
(* of its item and its quantity.  JSON.stringify writes the lines one      *)
(* after another as id, quantity; JSON.parse reads them back in pairs.     *)
(* The text of the empty cart is "[]": it is a string, and truthy.         *)
(***************************************************************************)
stringify(c) ==
  [k \in 1 .. 2 * Len(c) |->
     IF k % 2 = 1 THEN c[(k + 1) \div 2].id ELSE c[k \div 2].quantity]

parse(t) ==
  [k \in 1 .. Len(t) \div 2 |-> [id |-> t[2 * k - 1], quantity |-> t[2 * k]]]

addToCartCode(prev, item) ==
  IF \E k \in 1 .. Len(prev) : prev[k].id = item
    THEN [k \in 1 .. Len(prev) |->
            IF prev[k].id = item
              THEN [prev[k] EXCEPT !.quantity = @ + 1]
              ELSE prev[k]]
    ELSE Append(prev, [id |-> item, quantity |-> 1])

removeFromCartCode(prev, id) == SelectSeq(prev, LAMBDA i : i.id # id)

\* updateQuantity without Math.max
updateQuantityCode_NoFloor(prev, id, qty) ==
  [k \in 1 .. Len(prev) |->
     IF prev[k].id = id THEN [prev[k] EXCEPT !.quantity = qty] ELSE prev[k]]

updateQuantityCode(prev, id, qty) ==
  [k \in 1 .. Len(prev) |->
     IF prev[k].id = id
       THEN [prev[k] EXCEPT !.quantity = IF qty > 1 THEN qty ELSE 1]
       ELSE prev[k]]

\* setCart on the mounted provider: the render that follows runs the effect
\* on [cart], which writes the new cart to localStorage
setCart(next) ==
  /\ effects.pc = "idle"
  /\ cart' = next
  /\ localStorage' = setItem(stringify(next))
  /\ effects' = [effects EXCEPT !.closure = next]

addToCart(item) ==
  /\ \A k \in 1 .. Len(cart) : cart[k].quantity < MaxCartQuantity
  /\ setCart(addToCartCode(cart, item))
  /\ UNCHANGED <<loading, handlers, serverVars>>

removeFromCart(id) ==
  /\ setCart(removeFromCartCode(cart, id))
  /\ UNCHANGED <<loading, handlers, serverVars>>

updateQuantity(id, qty) ==
  /\ setCart(updateQuantityCode(cart, id, qty))
  /\ UNCHANGED <<loading, handlers, serverVars>>

clearCart ==
  /\ setCart(<<>>)
  /\ UNCHANGED <<loading, handlers, serverVars>>

(***************************************************************************)
(* The mount of CartProvider.  The first render has the empty cart of      *)
(* useState([]); its two effects run in the order of the source, the first *)
(* queueing setCart with the parsed saved cart, the second writing the     *)
(* cart of the render to localStorage.  Under StrictMode a development     *)
(* build runs the effects of a mount a second time before the queued       *)
(* updates are rendered; a production build runs them once.  The render    *)
(* of the queued updates takes the last of them and runs the effect on     *)
(* [cart] again.                                                           *)
(***************************************************************************)
Mount(strict) ==
  /\ effects.pc = "unmounted"
  /\ cart' = <<>>
  /\ effects' = [pc |-> "load", strict |-> strict, pass |-> 1,
                 closure |-> <<>>, queue |-> <<>>]
  /\ UNCHANGED <<localStorage, loading, handlers, serverVars>>

EffectLoad ==
  /\ effects.pc = "load"
  /\ effects' = [effects EXCEPT
                   !.pc = "save",
                   !.queue = IF localStorage.present
                               THEN Append(@, parse(localStorage.text))
                               ELSE @]
  /\ UNCHANGED <<cart, localStorage, loading, handlers, serverVars>>

EffectSave ==
  /\ effects.pc = "save"
  /\ localStorage' = setItem(stringify(effects.closure))
  /\ effects' = IF effects.strict /\ effects.pass = 1
                  THEN [effects EXCEPT !.pc = "load", !.pass = 2]
                  ELSE [effects EXCEPT
                          !.pc = IF effects.queue = <<>>
                                   THEN "idle" ELSE "render"]
  /\ UNCHANGED <<cart, loading, handlers, serverVars>>

Render ==
  /\ effects.pc = "render"
  /\ cart' = effects.queue[Len(effects.queue)]
  /\ effects' = [effects EXCEPT !.pc = "save", !.pass = 2,
                                !.closure = cart', !.queue = <<>>]
  /\ UNCHANGED <<localStorage, loading, handlers, serverVars>>

\* the page is closed or reloaded: the state of the components is gone,
\* localStorage stays
Unload ==
  /\ effects.pc = "idle"
  /\ cart' = <<>>
  /\ effects' = Unmounted
  /\ loading' = FALSE
  /\ handlers' = [h \in Clicks |-> HandlerIdle]
  /\ UNCHANGED <<localStorage, serverVars>>

(***************************************************************************)
(* The Checkout page.  handleCheckout returns at once on an empty cart,    *)
(* awaits GET /addresses/me, and only when that resolves sets loading and  *)
(* sends POST /orders with the cart of the render the click happened in;   *)
(* when the POST resolves it clears the cart (on success) and resets       *)
(* loading.  The button is disabled while loading is set.                  *)
(***************************************************************************)
ClickCheckout(h) ==
  /\ effects.pc = "idle"
  /\ ~loading
  /\ handlers[h].pc = "idle"
  /\ handlers' = IF cart = <<>>
                   THEN handlers
                   ELSE [handlers EXCEPT ![h] = [pc |-> "address", cart |-> cart]]
  /\ UNCHANGED <<cart, localStorage, effects, loading, serverVars>>

AddressResolves(h, ok) ==
  /\ handlers[h].pc = "address"
  /\ IF ok
       THEN /\ loading' = TRUE
            /\ handlers' = [handlers EXCEPT ![h].pc = "post"]
       ELSE /\ handlers' = [handlers EXCEPT ![h] = HandlerIdle]
            /\ UNCHANGED loading
  /\ UNCHANGED <<cart, localStorage, effects, serverVars>>

PostResolves(h, ok) ==
  /\ handlers[h].pc = "post"
  /\ IF ok THEN setCart(<<>>) ELSE UNCHANGED <<cart, localStorage, effects>>
  /\ loading' = FALSE
  /\ handlers' = [handlers EXCEPT ![h] = HandlerIdle]
  /\ UNCHANGED serverVars

(***************************************************************************)
(* The totals the pages show.  The client's page ("Meus pedidos") shows    *)
(* calcTotal(order), which sums oi.item.unitPrice * oi.quantity over the   *)
(* lines of the order as GET /orders/my returned them: getMyOrders         *)
(* includes the item of every line, so the price is the one of the catalog *)
(* at the time of the request.  The administrator's page shows order.total.*)
(***************************************************************************)
calcTotal(order) == reduceTotal(order.orderItems, unitPrice, 0)

adminTotal(order) == order.total

(***************************************************************************)
(* Requests the specifications draw from.                                  *)
(***************************************************************************)
Line(itemId, quantity) == [itemId |-> itemId, quantity |-> quantity]

\* a body; junk marks a caller who also sends status, total and clientId
Body(paymentMethod, hasItems, items, junk) ==
  [paymentMethod |-> paymentMethod, hasItems |-> hasItems, items |-> items,
   status |-> IF junk THEN "delivered" ELSE "",
   total |-> IF junk THEN 1 ELSE 0,
   clientId |-> IF junk THEN 1 ELSE 0]

GoodLines == {Line(i, Num(q, 1)) : i \in ItemIds, q \in 1 .. 2}
BadLines == {Line(MissingItemId, Num(1, 1)), Line(1, Num(0, 1)),
             Line(1, Num(0 - 1, 1)), Line(1, Num(3, 2))}

RECURSIVE SeqsUpTo(_, _)
SeqsUpTo(S, n) ==
  IF n = 0 THEN {<<>>}
  ELSE SeqsUpTo(S, n - 1)
         \cup {Append(q, x) : q \in {p \in SeqsUpTo(S, n - 1) : Len(p) = n - 1},
                              x \in S}

\* lists of good lines, with a bad line in each position
ItemLists ==
  SeqsUpTo(GoodLines, MaxLines)
    \cup {<<b>> : b \in BadLines}
    \cup {<<Line(1, Num(1, 1)), b>> : b \in BadLines}

CreateBodies ==
  {Body("PIX", TRUE, l, FALSE) : l \in ItemLists}
    \cup {Body("CASH", TRUE, <<Line(1, Num(2, 1)), Line(1, Num(1, 1))>>, TRUE),
          Body("PIX", FALSE, <<>>, FALSE),
          Body("BOLETO", TRUE, <<Line(1, Num(1, 1))>>, FALSE),
          Body("", TRUE, <<Line(1, Num(1, 1))>>, FALSE)}

\* the bodies of the status workflow: one order shape, with and without junk
StatusBodies ==
  {Body("PIX", TRUE, <<Line(1, Num(1, 1))>>, FALSE),
   Body("PIX", TRUE, <<Line(1, Num(1, 1))>>, TRUE),
   Body("PIX", TRUE, <<>>, FALSE),
   Body("PIX", FALSE, <<>>, FALSE)}

OrderIdInputs == 1 .. (Len(orders) + 1)

\* a representative well-formed body
PlainBody == Body("PIX", TRUE, <<Line(1, Num(1, 1))>>, FALSE)

\* POST /orders: the given bodies from the given clients, one body from
\* every caller
CreateRequests(clients, bodies) ==
  {<<TokenOf(u), b>> : u \in clients, b \in bodies}
    \cup {<<c, PlainBody>> : c \in Credentials}

\* PATCH /orders/status/:id: every id from the administrator, one id from the
\* other callers
StatusRequests ==
  {<<TokenOf(u), id>> : u \in AdminIds, id \in OrderIdInputs}
    \cup {<<c, 1>> : c \in Credentials}

\* GET /orders/my/:id: every id from every client, one id from the other callers
MyOrderRequests ==
  {<<TokenOf(u), id>> : u \in ClientIds, id \in OrderIdInputs}
    \cup {<<c, 1>> : c \in Credentials}

\* PUT /items/:id: every item and price from the administrator, one update
\* from the other callers
UpdateItemRequests ==
  {<<TokenOf(u), i, p>> : u \in AdminIds, i \in ItemIds \cup {MissingItemId},
                          p \in 0 .. MaxPrice}
    \cup {<<c, 1, 1>> : c \in Credentials}

\* what a caller can put in the Authorization header: nothing, something
\* else than a bearer token, a token jwt.verify rejects, or a token signed
\* by login
Presented == {NoHeader, NotBearer, BadToken} \cup issued

\* the e-mail addresses no seed user has
NewEmails == (Len(SeedUsers) + 1) .. (Len(SeedUsers) + MaxNewUsers)

\* POST /users/register: new and used e-mail addresses, with and without a
\* type in the body, and a body the schema rejects
RegisterBodies ==
  {UserBody("x", e, "pw", t, TRUE) : e \in NewEmails \cup {1}, t \in {"", "ADMIN"}}
    \cup {UserBody("x", Len(SeedUsers) + 1, "pw", "ADMIN", FALSE)}

\* POST /users/login: a seed client and the new users, with right and wrong
\* passwords
LoginRequests ==
  {<<e, p, iat>> : e \in {1} \cup NewEmails, p \in {"cliente123", "pw"},
                   iat \in 1 .. MaxSessions}

\* PUT /users/:id: a new name with a type, an e-mail address in use, a new
\* password with a type, and a body the schema rejects
UpdateBodies ==
  {UserBody("x", 0, "", "ADMIN", TRUE), UserBody("", 2, "", "", TRUE),
   UserBody("", 0, "pw", "ADMIN", TRUE), UserBody("x", 0, "", "", FALSE)}

\* every body for a seed client, the new users and a missing user from that
\* client and the administrator, one update from every other caller
UpdateUserRequests ==
  {<<c, id, b>> : c \in {TokenOf(1), TokenOf(3)},
                  id \in {1, Len(users) + 1} \cup NewEmails,
                  b \in UpdateBodies}
    \cup {<<c, 1, UserBody("x", 0, "", "ADMIN", TRUE)>> : c \in Presented}

\* a street the schema rejects and streets it accepts
ShortStreet == <<"R", ".">>

\* POST and PUT /addresses: bodies the schema accepts, without and with a
\* userId and an id of their own, and a body it rejects
AddressBodies ==
  {AddressBody(<<"R", "u", "a">>, 0, 0), AddressBody(ShortStreet, 0, 0)}
    \cup {AddressBody(<<"A", "v", ".">>, u, 1) : u \in ClientIds}

\* the callers of the address routes: the clients and the requests without
\* a valid token (the routes treat the administrator as they treat a client)
AddressCallers == Credentials \ {TokenOf(u) : u \in AdminIds}

\* every body from one client, one body from every other caller
AddressRequests ==
  {<<TokenOf(1), b>> : b \in AddressBodies}
    \cup {<<c, AddressBody(<<"R", "u", "a">>, 0, 0)>> : c \in AddressCallers}

(***************************************************************************)
(* Specifications.                                                         *)
(***************************************************************************)
\* the status workflow of one client's orders, requests interleaving at their
\* store operations
\* descriptions the schemas refuse and accept
Descriptions == {<<"a", "b">>, <<"a", "b", "c">>}

\* ids of the Category table: the first row of the seed, the first row
\* added, and an id no row has
MissingCategoryId == NumCategories + MaxNewRows + 1
CategoryIdInputs == {1, NumCategories + 1, MissingCategoryId}

\* ids of the Item table: the first row of the seed (the item of the order
\* lines), the last one, the first row added, and an id no row has
MissingRowId == NumItems + MaxNewRows + 1
ItemIdInputs == {1, NumItems, NumItems + 1, MissingRowId}

\* what the foreign keys of the store do with a delete of a referenced row
OnDelete == {"Restrict", "Cascade"}

\* the callers of the catalog routes given every input, and the others
CatalogAdmins == {TokenOf(u) : u \in AdminIds}
CatalogOthers == {TokenOf(u) : u \in ClientIds}

\* POST /orders: one body from the first client and from the others
CatalogOrderRequests ==
  {<<c, PlainBody>> : c \in {TokenOf(1)} \cup CatalogAdmins}

\* PATCH /orders/status/:id
CatalogStatusRequests ==
  {<<c, id>> : c \in CatalogAdmins, id \in {1, MaxOrders + 1}}
    \cup {<<c, 1>> : c \in CatalogOthers}

\* POST /categories
CreateCategoryRequests ==
  {<<c, d>> : c \in CatalogAdmins, d \in Descriptions}
    \cup {<<c, <<"a", "b", "c">>>> : c \in CatalogOthers}

\* PUT /categories/:id
UpdateCategoryRequests ==
  {<<c, id, d>> : c \in CatalogAdmins, id \in {1, MissingCategoryId},
                  d \in Descriptions}
    \cup {<<c, 1, <<"a", "b", "c">>>> : c \in CatalogOthers}

\* DELETE /categories/:id
DeleteCategoryRequests ==
  {<<c, id>> : c \in CatalogAdmins, id \in CategoryIdInputs}
    \cup {<<c, 1>> : c \in CatalogOthers}

\* POST /items
CreateItemRequests ==
  {<<c, p, k>> : c \in CatalogAdmins, p \in {0, 1},
                 k \in {1, MissingCategoryId}}
    \cup {<<c, 1, 1>> : c \in CatalogOthers}

\* PUT /items/:id: the price of an item no order line names
CatalogUpdateItemRequests ==
  {<<c, i, p>> : c \in CatalogAdmins, i \in {NumItems, MissingRowId},
                 p \in {0, MaxPrice}}
    \cup {<<c, NumItems, MaxPrice>> : c \in CatalogOthers}

\* DELETE /items/:id
DeleteItemRequests ==
  {<<c, i>> : c \in CatalogAdmins, i \in ItemIdInputs \ {1}}
    \cup {<<c, 1>> : c \in CatalogOthers}

Next ==
  \/ \E q \in CreateRequests({1}, StatusBodies) : CreateOrderRejected(q[1], q[2])
  \/ \E r \in Reqs, q \in CreateRequests({1}, StatusBodies) :
       CreateOrderInsert(r, q[1], q[2], MaxOrders)
  \/ \E r \in Reqs : CreateOrderSetTotal(r)
  \/ \E r \in Reqs : CreateOrderSetTotalFails(r)
  \/ \E q \in StatusRequests : UpdateOrderStatusRejected(q[1], q[2])
  \/ \E r \in Reqs, q \in StatusRequests : UpdateOrderStatusRead(r, q[1], q[2])
  \/ \E r \in Reqs : UpdateOrderStatusWrite(r)

Spec == Init /\ [][Next]_vars

\* the same requests applied one after another: a request starts when no
\* other is in flight
NoneInFlight == \A r \in Reqs : reqs[r].pc = "idle"

NextSeq ==
  \/ \E q \in CreateRequests({1}, StatusBodies) :
       NoneInFlight /\ CreateOrderRejected(q[1], q[2])
  \/ \E r \in Reqs, q \in CreateRequests({1}, StatusBodies) :
       NoneInFlight /\ CreateOrderInsert(r, q[1], q[2], MaxOrders)
  \/ \E r \in Reqs : CreateOrderSetTotal(r)
  \/ \E r \in Reqs : CreateOrderSetTotalFails(r)
  \/ \E q \in StatusRequests :
       NoneInFlight /\ UpdateOrderStatusRejected(q[1], q[2])
  \/ \E r \in Reqs, q \in StatusRequests :
       NoneInFlight /\ UpdateOrderStatusRead(r, q[1], q[2])
  \/ \E r \in Reqs : UpdateOrderStatusWrite(r)

SpecSeq == Init /\ [][NextSeq]_vars

\* orders of several clients and the client's read of one order, interleaving
\* with the creations
NextRead ==
  \/ \E q \in CreateRequests(ClientIds, StatusBodies) :
       CreateOrderRejected(q[1], q[2])
  \/ \E r \in Reqs, q \in CreateRequests(ClientIds, StatusBodies) :
       CreateOrderInsert(r, q[1], q[2], MaxOrders)
  \/ \E r \in Reqs : CreateOrderSetTotal(r)
  \/ \E r \in Reqs : CreateOrderSetTotalFails(r)
  \/ \E q \in MyOrderRequests : GetMyOrderById(q[1], q[2])

SpecRead == Init /\ [][NextRead]_vars

\* order creation against a catalog whose prices change
NextCreate ==
  \/ \E q \in CreateRequests({1}, CreateBodies) : CreateOrderRejected(q[1], q[2])
  \/ \E q \in CreateRequests({1}, CreateBodies) : CreateOrderStoreError(q[1], q[2])
  \/ \E r \in Reqs, q \in CreateRequests({1}, CreateBodies) :
       CreateOrderInsert(r, q[1], q[2], MaxOrders)
  \/ \E r \in Reqs : CreateOrderSetTotal(r)
  \/ \E r \in Reqs : CreateOrderSetTotalFails(r)
  \/ \E q \in UpdateItemRequests : UpdateItem(q[1], q[2], q[3])

SpecCreate == Init /\ [][NextCreate]_vars

\* orders of several clients and the client's list of its orders
NextList ==
  \/ \E q \in CreateRequests(ClientIds, {PlainBody}) :
       CreateOrderRejected(q[1], q[2])
  \/ \E r \in Reqs, q \in CreateRequests(ClientIds, {PlainBody}) :
       CreateOrderInsert(r, q[1], q[2], MaxOrders + 2)
  \/ \E r \in Reqs : CreateOrderSetTotal(r)
  \/ \E r \in Reqs : CreateOrderSetTotalFails(r)
  \/ \E cred \in Credentials : GetMyOrders(cred)

SpecList == Init /\ [][NextList]_vars

\* registration, login and profile updates
NextUsers ==
  \/ \E b \in RegisterBodies : CreateUser(b, Len(SeedUsers) + MaxNewUsers)
  \/ \E q \in LoginRequests : Login(q[1], q[2], q[3])
  \/ \E q \in UpdateUserRequests : UpdateUser(q[1], q[2], q[3])

SpecUsers == Init /\ [][NextUsers]_vars

\* sessions: login, logout, and requests to protected routes with whatever a
\* caller can present
NextSessions ==
  \/ \E q \in LoginRequests : Login(q[1], q[2], q[3])
  \/ \E c \in Presented : Logout(c)
  \/ \E c \in Presented : UpdateUser(c, 1, UserBody("x", 0, "", "ADMIN", TRUE))
  \/ \E c \in Presented : GetMyOrders(c)

SpecSessions == Init /\ [][NextSessions]_vars

\* the address routes, requests interleaving at their store operations
NextAddress ==
  \/ \E c \in AddressCallers : GetMyAddress(c)
  \/ \E q \in AddressRequests : CreateMyAddressRejected(q[1], q[2])
  \/ \E r \in Reqs, q \in AddressRequests :
       CreateMyAddressCheck(r, q[1], q[2], MaxAddressIds)
  \/ \E r \in Reqs : CreateMyAddressInsert(r)
  \/ \E q \in AddressRequests : UpdateMyAddressRejected(q[1], q[2])
  \/ \E r \in Reqs, q \in AddressRequests : UpdateMyAddressCheck(r, q[1], q[2])
  \/ \E r \in Reqs : UpdateMyAddressWrite(r)
  \/ \E c \in AddressCallers : DeleteMyAddressRejected(c)
  \/ \E r \in Reqs, c \in AddressCallers : DeleteMyAddressCheck(r, c)
  \/ \E r \in Reqs : DeleteMyAddressWrite(r)

SpecAddress == Init /\ [][NextAddress]_vars

\* The catalog routes and the status route, called by clients, by the
\* administrator and without a valid token, next to a client's orders.
NextCatalog ==
  \/ \E q \in CatalogOrderRequests : CreateOrderRejected(q[1], q[2])
  \/ \E q \in CatalogOrderRequests : CreateOrderInsert(1, q[1], q[2], MaxOrders)
  \/ CreateOrderSetTotal(1)
  \/ \E q \in CatalogStatusRequests : UpdateOrderStatusRejected(q[1], q[2])
  \/ \E q \in CatalogStatusRequests : UpdateOrderStatusRead(1, q[1], q[2])
  \/ UpdateOrderStatusWrite(1)
  \/ \E q \in CreateCategoryRequests :
       CreateCategory(q[1], q[2], NumCategories + MaxNewRows)
  \/ \E q \in UpdateCategoryRequests : UpdateCategory(q[1], q[2], q[3])
  \/ \E q \in DeleteCategoryRequests, k \in OnDelete :
       DeleteCategory(q[1], q[2], k)
  \/ \E q \in CreateItemRequests :
       CreateItem(q[1], q[2], q[3], NumItems + MaxNewRows)
  \/ \E q \in CatalogUpdateItemRequests : UpdateItem(q[1], q[2], q[3])
  \/ \E q \in DeleteItemRequests, k \in OnDelete : DeleteItem(q[1], q[2], k)

SpecCatalog == Init /\ [][NextCatalog]_vars

\* Orders and addresses of the clients while store operations may throw.
NextFailure ==
  \/ \E q \in CreateRequests(ClientIds, {PlainBody}) :
       CreateOrderRejected(q[1], q[2])
  \/ \E r \in Reqs, q \in CreateRequests(ClientIds, {PlainBody}) :
       CreateOrderInsert(r, q[1], q[2], MaxOrders)
  \/ \E r \in Reqs : CreateOrderSetTotal(r)
  \/ \E c \in Credentials : GetMyOrders(c)
  \/ \E q \in CreateRequests(ClientIds, {PlainBody}), e \in StoreErrors :
       CreateOrderFails(q[1], q[2], e)
  \/ \E c \in Credentials, e \in StoreErrors : GetMyOrdersFails(c, e)
  \/ \E q \in AddressRequests, e \in StoreErrors :
       CreateMyAddressFails(q[1], q[2], e)

SpecFailure == Init /\ [][NextFailure]_vars

\* the callers of the routes with a body: no token, a client, the
\* administrator
ChainCallers == {NoHeader, TokenOf(1)} \cup CatalogAdmins

\* a body orderSchema refuses
BadOrderBody == Body("BOLETO", TRUE, <<Line(1, Num(1, 1))>>, FALSE)

\* The routes that validate a body, each called with a body its schema
\* accepts and with one it refuses, by every kind of caller.
NextChain ==
  \/ \E c \in ChainCallers, b \in {PlainBody, BadOrderBody} :
       CreateOrderRejected(c, b)
  \/ \E c \in ChainCallers, b \in {PlainBody, BadOrderBody} :
       CreateOrderInsert(1, c, b, MaxOrders)
  \/ CreateOrderSetTotal(1)
  \/ \E c \in ChainCallers, d \in Descriptions :
       CreateCategory(c, d, NumCategories + MaxNewRows)
  \/ \E c \in ChainCallers, q \in {0, MaxPrice} : UpdateItem(c, NumItems, q)
  \/ \E c \in ChainCallers, w \in BOOLEAN :
       UpdateUser(c, 1, UserBody("x", 0, "", "", w))
  \/ \E c \in ChainCallers, b \in {AddressBody(<<"R", "u", "a">>, 0, 0),
                                     AddressBody(ShortStreet, 0, 0)} :
       \/ CreateMyAddressRejected(c, b)
       \/ CreateMyAddressCheck(1, c, b, MaxAddressIds)
       \/ UpdateMyAddressRejected(c, b)
  \/ CreateMyAddressInsert(1)

SpecChain == Init /\ [][NextChain]_vars

\* prices of the seed, in cents: X-Salada, Coca-Cola, X-Bacon, Milkshake
SeedCents == {1890, 650, 2250, 1490}

\* highest quantity of a line
MaxQuantity == 3

\* bodies of one line and of two lines, whole quantities
TotalBodies ==
  {Body("PIX", TRUE, <<Line(i, Num(q, 1))>>, FALSE) :
     i \in ItemIds, q \in 1 .. MaxQuantity}
    \cup {Body("PIX", TRUE, <<Line(1, Num(q, 1)), Line(NumItems, Num(k, 1))>>,
                FALSE) : q \in 1 .. MaxQuantity, k \in 1 .. MaxQuantity}

\* The total of an order as createOrder computes it, over the prices of the
\* seed.
InitTotals ==
  /\ unitPrice \in [ItemIds -> SeedCents]
  /\ orders = <<>>
  /\ reqs = [r \in Reqs |-> Idle]
  /\ response = NoResponse
  /\ expected = <<>>
  /\ users = SeedUsers
  /\ issued = {TokenOf(u) : u \in UserIds}
  /\ blacklist = {}
  /\ addresses = [rows |-> {}, nextId |-> 1]
  /\ catalog = SeedCatalog
  /\ PageInit

NextTotals == \E b \in TotalBodies : CreateOrderTotal(TokenOf(1), b)

SpecTotals == InitTotals /\ [][NextTotals]_vars

\* the cart of one browser: the page is opened in a development or in a
\* production build, the cart is edited, the page is closed and opened again
Builds == BOOLEAN
QtyInputs == -1 .. MaxCartQuantity

NextCart ==
  \/ \E strict \in Builds : Mount(strict)
  \/ EffectLoad
  \/ EffectSave
  \/ Render
  \/ Unload
  \/ \E i \in ItemIds : addToCart(i)
  \/ \E i \in ItemIds : removeFromCart(i)
  \/ \E i \in ItemIds, q \in QtyInputs : updateQuantity(i, q)
  \/ clearCart

SpecCart == Init /\ [][NextCart]_vars

\* one client at the Checkout page: the clicks on the button and the
\* answers of the two requests of handleCheckout in every order
NextCheckout ==
  \/ \E strict \in Builds : Mount(strict)
  \/ EffectLoad
  \/ EffectSave
  \/ Render
  \/ Unload
  \/ addToCart(1)
  \/ \E h \in Clicks : ClickCheckout(h)
  \/ \E h \in Clicks, ok \in BOOLEAN : AddressResolves(h, ok)
  \/ \E h \in Clicks, ok \in BOOLEAN : PostResolves(h, ok)

SpecCheckout == Init /\ [][NextCheckout]_vars

\* a client orders and opens its list of orders while the administrator
\* changes the price of the ordered item
NextShown ==
  \/ \E q \in CreateRequests({1}, {PlainBody}) :
       CreateOrderInsert(1, q[1], q[2], MaxOrders + 2)
  \/ CreateOrderSetTotal(1)
  \/ \E p \in Prices : UpdateItem(TokenOf(3), 1, p)
  \/ GetMyOrders(TokenOf(1))

SpecShown == Init /\ [][NextShown]_vars

(***************************************************************************)
(* Properties.                                                             *)
(***************************************************************************)
\* the position of a status in the fixed sequence, 0 for any other value
Pos(s) ==
  IF \E i \in 1 .. Len(STATUSES) : STATUSES[i] = s
  THEN CHOOSE i \in 1 .. Len(STATUSES) : STATUSES[i] = s
  ELSE 0

\* the step leaves order o alone or moves its status one position forward
OneStepForward(o) ==
  \/ orders'[o].status = orders[o].status
  \/ /\ Pos(orders[o].status) > 0
     /\ Pos(orders'[o].status) = Pos(orders[o].status) + 1

\* C1: with the requests applied one after another, every order starts at
\* pending whatever the body says, every stored change of its status is one
\* position forward in pending, preparing, delivering, delivered, every
\* advance answered 200 returns the status after the one it read, and an
\* advance that reads delivered is rejected and changes nothing.
C1_StatusSequence ==
  [][/\ \A o \in 1 .. Len(orders') :
          IF o > Len(orders) THEN orders'[o].status = STATUSES[1]
          ELSE OneStepForward(o)
     /\ (response'.op = "updateOrderStatus" /\ response'.code = 200)
          => /\ Pos(response'.seen) > 0
             /\ Pos(response'.body.status) = Pos(response'.seen) + 1
             /\ orders'[response'.orderId].status = response'.body.status
     /\ (response'.op = "updateOrderStatus" /\ response'.seen = "delivered")
          => response'.code = 400 /\ orders' = orders]_vars

\* C1 witness: an order has been advanced to delivered and a further advance
\* has just been rejected
C1_Witness ==
  /\ response.op = "updateOrderStatus"
  /\ response.code = 400
  /\ response.seen = "delivered"
  /\ response.orderId \in OrderIds
  /\ orders[response.orderId].status = "delivered"

\* C2: under interleaved advance requests the stored status of an order
\* never moves to an earlier state and never skips a state.
C2_NeverBackwardNeverSkips ==
  [][\A o \in OrderIds : OneStepForward(o)]_vars

\* C3: every advance answered 200 moved the stored status exactly one step
\* forward from the value stored immediately before its write.
C3_SuccessMovedOneStep ==
  (response.op = "updateOrderStatus" /\ response.code = 200)
    => /\ Pos(response.before) > 0
       /\ Pos(response.body.status) = Pos(response.before) + 1

\* C4: an advance that finds the order delivered is answered 400, an advance
\* by the administrator on an id no order has is answered 404, and neither
\* changes any order.
C4_TerminalAndMissing ==
  [][/\ (response'.op = "updateOrderStatus" /\ response'.seen = "delivered")
          => response'.code = 400 /\ orders' = orders
     /\ (response'.op = "updateOrderStatus" /\ response'.caller \in AdminIds
           /\ response'.orderId \notin OrderIds)
          => response'.code = 404 /\ orders' = orders]_vars

\* C4 witness: an advance on a delivered order has just been answered 400
\* while another advance request is in flight
C4_Witness ==
  /\ response.op = "updateOrderStatus"
  /\ response.code = 400
  /\ response.seen = "delivered"
  /\ \E r \in Reqs : reqs[r].pc = "read"

\* the response answers a create-order request of an authenticated client
ByClient(res) == res.op = "createOrder" /\ res.caller \in ClientIds

\* C5: a createOrder answered 201 stores and returns the sum, over the lines
\* of its request, of the catalog unit price at creation x quantity, also for
\* repeated item ids and whatever total the body carries.
C5_TotalIsSumOfLines ==
  (response.op = "createOrder" /\ response.code = 201)
    => /\ response.body.total = expected[response.orderId]
       /\ orders[response.orderId].total = expected[response.orderId]
       /\ Len(response.body.orderItems) = Len(response.request.items)

\* C5 witness: a 201 for a body with a total of its own and two lines of the
\* same item, after the price of that item changed since the creation
C5_Witness ==
  /\ response.op = "createOrder"
  /\ response.code = 201
  /\ response.request.total # 0
  /\ Len(response.request.items) = 2
  /\ response.request.items[1].itemId = response.request.items[2].itemId
  /\ LineSum(response.request.items, unitPrice) # expected[response.orderId]

\* C6: every persisted order has at least one line and a total equal to the
\* sum of its lines' unit price x quantity, in every state another request
\* can observe.
C6_CreationAtomic ==
  \A o \in OrderIds :
    /\ Len(orders[o].orderItems) >= 1
    /\ orders[o].total = expected[o]

\* C7: a client's create-order request whose items list is missing or empty
\* is answered 400, is never taken to the store, and leaves the orders as
\* they were.
C7_EmptyItemsRejected ==
  [][/\ (ByClient(response')
           /\ (~response'.request.hasItems \/ response'.request.items = <<>>))
          => response'.code = 400 /\ orders' = orders
     /\ \A r \in Reqs :
          reqs'[r].pc = "created"
            => reqs'[r].request.hasItems /\ reqs'[r].request.items # <<>>
     /\ \A o \in 1 .. Len(orders') : orders'[o].orderItems # <<>>]_vars

\* C7 witness: a client's request with an empty items list has just been
\* answered 400 while an order exists
C7_Witness ==
  /\ ByClient(response)
  /\ response.request.hasItems
  /\ response.request.items = <<>>
  /\ response.code = 400
  /\ orders # <<>>

\* C8: a client's create-order request with a line whose item id is not in
\* the catalog is answered 404 and persists nothing.
C8_MissingItemNotFound ==
  (ByClient(response)
     /\ \E i \in 1 .. Len(response.request.items) :
          response.request.items[i].itemId \notin ItemIds)
    => response.code = 404 /\ response.orderId = 0

\* C9: a client's create-order request with a quantity that is not a positive
\* integer, or a paymentMethod outside the enum, is answered 400 and persists
\* nothing.
C9_BadQuantityOrPaymentRejected ==
  (ByClient(response)
     /\ \/ response.request.paymentMethod \notin PAYMENT_METHODS
        \/ \E i \in 1 .. Len(response.request.items) :
             \/ ~IsPositive(response.request.items[i].quantity)
             \/ ~IsInteger(response.request.items[i].quantity))
    => response.code = 400 /\ response.orderId = 0

\* C10: GET /orders/my/:id by a client answers 404 without data when no order
\* has the id, 403 without data when the order is another client's, and 200
\* with the order when it is the caller's.
C10_OwnOrderOnly ==
  (response.op = "getMyOrderById" /\ response.caller \in ClientIds)
    => IF response.orderId \notin OrderIds
       THEN response.code = 404 /\ response.body = NoOrder
       ELSE IF orders[response.orderId].clientId # response.caller
       THEN response.code = 403 /\ response.body = NoOrder
       ELSE response.code = 200 /\ response.body = orders[response.orderId]

\* C10 witness: a client has just been refused another client's order
C10_Witness ==
  /\ response.op = "getMyOrderById"
  /\ response.caller \in ClientIds
  /\ response.orderId \in OrderIds
  /\ orders[response.orderId].clientId # response.caller
  /\ response.code = 403

\* the order id of the request is not the id of an order of client c
NotOwned(c, id) == id \notin OrderIds \/ orders[id].clientId # c

\* C11 (as stated): GET /orders/my/:id by a client for an id the client does
\* not own is answered 403 without data, the same whether the id is another
\* client's order or the id of no order.
C11_NotOwnedAlwaysForbidden ==
  (response.op = "getMyOrderById" /\ response.caller \in ClientIds
     /\ NotOwned(response.caller, response.orderId))
    => response.code = 403 /\ response.body = NoOrder

\* C11 (amended): a client never receives an order the client does not own,
\* and the refusal tells the two cases apart: for every client and every id
\* the client does not own the handler answers 403 when the id is another
\* client's order and 404 when no order has it, and every answer other than
\* 200 carries no order.
C11_NotOwnedRefusedByExistence ==
  /\ \A c \in ClientIds, id \in OrderIdInputs :
       NotOwned(c, id)
         => getMyOrderByIdCode(TokenOf(c), id)
              = (IF id \in OrderIds THEN 403 ELSE 404)
  /\ (response.op = "getMyOrderById" /\ response.code # 200)
       => response.body = NoOrder

\* C11 witness: while another client's order exists, a client has just been
\* answered 404 for an id no order has
C11_Witness ==
  /\ response.op = "getMyOrderById"
  /\ response.caller \in ClientIds
  /\ response.orderId \notin OrderIds
  /\ response.code = 404
  /\ \E o \in OrderIds : orders[o].clientId # response.caller

\* C12: GET /orders/my by a client is answered 200 with exactly the stored
\* orders whose clientId is the caller's id, each once and none of another
\* client, arranged by creation time, newest first.
C12_MyOrdersNewestFirst ==
  (response.op = "getMyOrders" /\ response.caller \in ClientIds)
    => /\ response.code = 200
       /\ {response.data[i] : i \in 1 .. Len(response.data)}
            = {orders[o] : o \in {x \in OrderIds :
                                    orders[x].clientId = response.caller}}
       /\ \A i, j \in 1 .. Len(response.data) :
            i < j => /\ response.data[i].id # response.data[j].id
                     /\ response.data[i].createdAt >= response.data[j].createdAt

\* C12 witness: a client was answered two orders of different creation times
\* while an order of another client exists
C12_Witness ==
  /\ response.op = "getMyOrders"
  /\ response.code = 200
  /\ Len(response.data) = 2
  /\ response.data[1].createdAt > response.data[2].createdAt
  /\ \E o \in OrderIds : orders[o].clientId # response.caller

\* C14: every order is inserted by a create-order request that carries the
\* token of a CLIENT, with that token's id as clientId whatever the body
\* says, the clientId of a stored order never changes, and a create-order
\* request of an ADMIN is answered 403 and leaves the orders as they were.
C14_OrdersOfTheirClients ==
  [][/\ \A o \in 1 .. Len(orders') :
          IF o > Len(orders)
          THEN \E r \in Reqs :
                 /\ reqs[r].pc = "idle" /\ reqs'[r].pc = "created"
                 /\ reqs'[r].orderId = o
                 /\ reqs'[r].cred.kind = "valid"
                 /\ reqs'[r].cred.type = "CLIENT"
                 /\ orders'[o].clientId = reqs'[r].cred.id
          ELSE orders'[o].clientId = orders[o].clientId
     /\ (response'.op = "createOrder" /\ response'.cred.type = "ADMIN")
          => response'.code = 403 /\ orders' = orders]_vars

\* C14 witness: an order was inserted for a client whose body named another
\* user as clientId
C14_Witness ==
  \E r \in Reqs :
    /\ reqs[r].pc = "created"
    /\ reqs[r].request.clientId \notin {0, reqs[r].caller}
    /\ orders[reqs[r].orderId].clientId = reqs[r].caller

\* the state of the store and of the process, without the response
storeVars ==
  <<unitPrice, orders, reqs, expected, users, issued, blacklist, addresses,
    catalog>>

\* the operations of the routes whose chain starts with autenticarToken
ProtectedOps ==
  {"createOrder", "updateOrderStatus", "getMyOrderById", "getMyOrders",
   "updateItem", "logout", "updateUser", "getMyAddress", "createMyAddress",
   "updateMyAddress", "deleteMyAddress", "createItem", "deleteItem",
   "createCategory", "updateCategory", "deleteCategory"}

\* the status codes the protected routes answer to a request with the
\* given credential
RouteCodes(cred) ==
  {createOrderGate(cred, PlainBody), updateOrderStatusGate(cred, 1),
   getMyOrderByIdCode(cred, 1), getMyOrdersCode(cred),
   updateItemCode(cred, 1, 1),
   updateUserCode(cred, 1, UserBody("x", 0, "", "", TRUE)),
   getMyAddressCode(cred),
   createMyAddressGate(cred, AddressBody(<<"R", "u", "a">>, 0, 0)),
   updateMyAddressGate(cred, AddressBody(<<"R", "u", "a">>, 0, 0)),
   deleteMyAddressGate(cred),
   createItemCode(cred, 1, 1), deleteItemCode(cred, 1, "Restrict"),
   createCategoryCode(cred, <<"a", "b", "c">>),
   updateCategoryCode(cred, 1, <<"a", "b", "c">>),
   deleteCategoryCode(cred, 1, "Restrict")}

\* the header carries no token, a token jwt.verify rejects, or a revoked one
Unauthenticated(cred) == cred.kind # "valid" \/ cred \in blacklist

\* C15 (as stated): a request to a protected route without a valid credential
\* (no header, no bearer token, a malformed, expired or revoked token) is
\* answered 401 and changes nothing.
C15_NoCredentialIs401 ==
  [][(response'.op \in ProtectedOps /\ Unauthenticated(response'.cred))
       => response'.code = 401 /\ UNCHANGED storeVars]_vars

\* C15 (amended): a request to a protected route is answered 401 when the
\* header is missing or not "Bearer <token>" and 403 when its token is
\* malformed, expired or revoked; either way it carries no data and changes
\* nothing, on every protected route.
C15_NoCredentialRejected ==
  [][/\ (response'.op \in ProtectedOps /\ Unauthenticated(response'.cred))
          => /\ response'.code
                  = (IF response'.cred.kind \in {"none", "notbearer"}
                     THEN 401 ELSE 403)
             /\ response'.data = <<>>
             /\ UNCHANGED storeVars
     /\ \A c \in Presented :
          Unauthenticated(c)
            => RouteCodes(c)
                 = {IF c.kind \in {"none", "notbearer"} THEN 401 ELSE 403}]_vars

\* C15 witness: the list of orders was just refused to a revoked token
C15_Witness ==
  /\ response.op = "getMyOrders"
  /\ response.cred \in blacklist
  /\ response.code = 403

C17_RoleNeverChanges ==
  [][/\ \A u \in 1 .. Len(users) : users'[u].type = users[u].type
     /\ {u \in 1 .. Len(users') : users'[u].type = "ADMIN"}
          \subseteq {u \in 1 .. Len(users) : users[u].type = "ADMIN"}
     /\ \A t \in issued' :
          t.id \in 1 .. Len(users') /\ t.type = users'[t.id].type]_vars

\* C17 witness: an update with type ADMIN in its body was answered 200 for a
\* client for whom login has signed a token
C17_Witness ==
  /\ response.op = "updateUser"
  /\ response.code = 200
  /\ response.request.type = "ADMIN"
  /\ users[response.orderId].type = "CLIENT"
  /\ \E t \in issued : t.id = response.orderId /\ t.iat > 0

\* the operations of the address routes
AddressOps ==
  {"getMyAddress", "createMyAddress", "updateMyAddress", "deleteMyAddress"}

\* C18: no user ever has two addresses, and a createMyAddress that reaches
\* its answer while its caller has an address (also one a concurrent request
\* inserted after this request's existence check) is answered 400 and leaves
\* the addresses as they were.
C18_OneAddressConflict400 ==
  [][/\ \A u \in UserIds : Cardinality(addressOf(u)') <= 1
     /\ (response'.op = "createMyAddress"
           /\ response'.code \notin {401, 403}
           /\ addressOf(response'.caller) # {})
          => response'.code = 400 /\ addresses'.rows = addresses.rows]_vars

\* C19: a request to an address route by principal P leaves the rows of the
\* other users as they were and adds none for them, the row it returns,
\* creates or updates has P's id as userId whatever userId or id the body
\* carries, and no other request changes the table.
C19_OwnAddressOnly ==
  [][/\ response'.op \in AddressOps
          => /\ {a \in addresses'.rows : a.userId # response'.caller}
                  = {a \in addresses.rows : a.userId # response'.caller}
             /\ response'.data # <<>>
                  => /\ response'.data[1].userId = response'.caller
                     /\ response'.op # "getMyAddress"
                          => response'.data[1] \in addresses'.rows
                     /\ response'.op = "getMyAddress"
                          => response'.data[1] \in addresses.rows
             /\ response'.code \in {200, 201} /\ response'.op # "deleteMyAddress"
                  => response'.data # <<>>
     /\ response'.op \notin AddressOps => addresses'.rows = addresses.rows]_vars

\* C19 witness: an update whose body names another user as userId was
\* answered 200 while that user has an address
C19_Witness ==
  /\ response.op = "updateMyAddress"
  /\ response.code = 200
  /\ response.request.userId \notin {0, response.caller}
  /\ addressOf(response.request.userId) # {}
  /\ response.data[1].userId = response.caller

\* the routes behind authorizeRole("ADMIN")
AdminOnlyOps ==
  {"updateOrderStatus", "createItem", "updateItem", "deleteItem",
   "createCategory", "updateCategory", "deleteCategory"}

\* the status codes these routes answer to a request with the given
\* credential
AdminOnlyCodes(cred) ==
  {updateOrderStatusGate(cred, 1), updateItemCode(cred, 1, 1),
   createItemCode(cred, 1, 1), deleteItemCode(cred, 1, "Cascade"),
   createCategoryCode(cred, <<"a", "b", "c">>),
   updateCategoryCode(cred, 1, <<"a", "b", "c">>),
   deleteCategoryCode(cred, 1, "Cascade")}

\* a step changes the status of an order
StatusChanges == \E o \in OrderIds : orders'[o].status # orders[o].status

\* C13: a request of a CLIENT to the status route or to a create, update or
\* delete of the catalog is answered 403 and changes no status, no category
\* and no item; whenever a status, a category or an item changes, the step
\* answers an administrator on one of these routes.
C13_ClientsNeverChangeStatusOrCatalog ==
  [][/\ (response'.op \in AdminOnlyOps /\ response'.cred.kind = "valid"
           /\ response'.cred.type = "CLIENT")
          => /\ response'.code = 403
             /\ ~StatusChanges
             /\ UNCHANGED <<unitPrice, catalog>>
     /\ (StatusChanges \/ unitPrice' # unitPrice \/ catalog' # catalog)
          => /\ response'.op \in AdminOnlyOps
             /\ response'.cred.type = "ADMIN"
             /\ response'.code \in {200, 201}
     /\ \A u \in ClientIds : AdminOnlyCodes(TokenOf(u)) = {403}]_vars

\* C13 witness: a client was just refused the delete of an item, after the
\* administrator changed the catalog and advanced an order
C13_Witness ==
  /\ response.op = "deleteItem"
  /\ response.cred.type = "CLIENT"
  /\ response.code = 403
  /\ catalog.categories # SeedCatalog.categories
  /\ DOMAIN unitPrice # ItemIds
  /\ \E o \in OrderIds : orders[o].status = "delivered"

\* C20: the blacklist only grows; a logout answered 200 puts its token on
\* it; from then on every protected route answers that token 403 from the
\* authentication middleware, without data and without any change; and the
\* tokens login signed that are not on the blacklist stay accepted.
C20_RevokedTokenStaysRejected ==
  [][/\ blacklist \subseteq blacklist'
     /\ (response'.op = "logout" /\ response'.code = 200)
          => blacklist' = blacklist \cup {response'.cred}
     /\ (response'.op \in ProtectedOps /\ response'.cred \in blacklist)
          => /\ response'.code = 403
             /\ response'.data = <<>>
             /\ UNCHANGED storeVars
     /\ \A t \in blacklist : RouteCodes(t) = {403}
     /\ \A t \in issued \ blacklist :
          autenticarToken(t) = 0 /\ 401 \notin RouteCodes(t)
     /\ (response'.op = "logout" /\ response'.cred \in issued \ blacklist)
          => response'.code = 200]_vars

\* C20 witness: a request with a revoked token was just refused while another
\* token of the same user is not revoked
C20_Witness ==
  /\ response.op = "updateUser"
  /\ response.cred \in blacklist
  /\ response.code = 403
  /\ \E t \in issued \ blacklist : t.id = response.cred.id

\* createOrder has answered the request that created the order
Returned(o) == \A r \in Reqs : ~(reqs[r].pc = "created" /\ reqs[r].orderId = o)

C22_ErrorBodyIndependent ==
  (response.code = 500
     /\ response.op \in {"createOrder", "getMyOrders", "createMyAddress"})
    => \A e \in StoreErrors : response.data = catchBody(e)

\* the step answers an administrator's well-formed PUT /users/:id whose id
\* no user has
UpdateOfMissingUser ==
  /\ response'.op = "updateUser"
  /\ autenticarToken(response'.cred) = 0
  /\ response'.cred.type = "ADMIN"
  /\ validateUser(response'.request) = 0
  /\ response'.orderId \notin 1 .. Len(users)

\* the step answers an administrator's well-formed PUT or DELETE of an item
\* or a category whose id no row has
ChangeOfMissingRow ==
  /\ autenticarToken(response'.cred) = 0
  /\ response'.cred.type = "ADMIN"
  /\ response'.code # 400
  /\ \/ /\ response'.op \in {"updateItem", "deleteItem"}
        /\ response'.orderId \notin DOMAIN unitPrice
     \/ /\ response'.op \in {"updateCategory", "deleteCategory"}
        /\ response'.orderId \notin DOMAIN catalog.categories

\* C23: an update of a user no row has is answered 404 and changes no user;
\* an update or a delete of an item or a category no row has is answered 404
\* and changes nothing.
C23_MissingRowIs404 ==
  [][/\ UpdateOfMissingUser => response'.code = 404 /\ users' = users
     /\ ChangeOfMissingRow
          => /\ response'.code = 404
             /\ UNCHANGED <<unitPrice, catalog, orders>>]_vars

\* C24: the total createOrder stores is the exact sum of unit price x
\* quantity in cents: the number that sum of cents denotes.
C24_TotalExactInCents ==
  (response.op = "createOrder" /\ response.code = 201 /\ response.data # <<>>)
    => response.data[1] = toDouble(LineSum(response.request.items, unitPrice))

\* the routes with validate in their chain, and the roles each admits
BodyOps == {"createOrder", "updateUser", "createMyAddress", "updateMyAddress"}

AllowedRoles(op) ==
  IF op = "createOrder" THEN {"CLIENT"} ELSE {"ADMIN", "CLIENT"}

\* validate refuses the body of the request the response answers
BodyRefused(res) ==
  IF res.op = "createOrder" THEN validate(res.request) # 0
  ELSE IF res.op = "updateUser" THEN validateUser(res.request) # 0
  ELSE validateAddress(res.request) # 0

\* C25: on a route that validates a body the checks run in the order
\* authenticate, authorize, validate, controller: without a token the answer
\* is 401 and with a token of a role the route does not admit 403, whatever
\* the body; a refused body is answered 400 once both passed; the store
\* changes only when all three passed.
C25_AuthenticateAuthorizeValidate ==
  [][/\ response'.op \in BodyOps
          => /\ response'.cred.kind = "none" => response'.code = 401
             /\ (autenticarToken(response'.cred) = 0
                  /\ response'.cred.type \notin AllowedRoles(response'.op))
                  => response'.code = 403
             /\ (autenticarToken(response'.cred) = 0
                  /\ response'.cred.type \in AllowedRoles(response'.op)
                  /\ BodyRefused(response'))
                  => response'.code = 400
             /\ (BodyRefused(response') \/ autenticarToken(response'.cred) # 0
                  \/ response'.cred.type \notin AllowedRoles(response'.op))
                  => UNCHANGED storeVars
     /\ \A d \in Descriptions, q \in {0, 1} :
          /\ {createCategoryCode(NoHeader, d), updateCategoryCode(NoHeader, 1, d),
               createItemCode(NoHeader, q, 1), updateItemCode(NoHeader, 1, q)}
               = {401}
          /\ \A u \in ClientIds :
               {createCategoryCode(TokenOf(u), d),
                updateCategoryCode(TokenOf(u), 1, d),
                createItemCode(TokenOf(u), q, 1),
                updateItemCode(TokenOf(u), 1, q)} = {403}
     /\ (response'.op \in {"createCategory", "updateCategory", "createItem",
                            "updateItem"}
          /\ (autenticarToken(response'.cred) # 0
               \/ response'.cred.type # "ADMIN"))
          => /\ response'.code \in {401, 403}
             /\ UNCHANGED storeVars]_vars

\* C25 witness: the administrator's order with a body the schema refuses was
\* just answered 403, after an order was created
C25_Witness ==
  /\ response.op = "createOrder"
  /\ response.cred.type = "ADMIN"
  /\ BodyRefused(response)
  /\ response.code = 403
  /\ orders # <<>>

\* the step answers PUT /users/:id of a client whose token names another id
UpdateOfAnotherUser ==
  /\ response'.op = "updateUser"
  /\ autenticarToken(response'.cred) = 0
  /\ response'.cred.type = "CLIENT"
  /\ response'.cred.id # response'.orderId

CartWellFormed(c) ==
  /\ \A k \in 1 .. Len(c) : c[k].quantity >= 1
  /\ \A j, k \in 1 .. Len(c) : c[j].id = c[k].id => j = k

QuantityOf(c, i) ==
  IF \E k \in 1 .. Len(c) : c[k].id = i
    THEN (CHOOSE l \in {c[k] : k \in 1 .. Len(c)} : l.id = i).quantity
    ELSE 0

CartEdit == effects.pc = "idle" /\ effects'.pc = "idle"

C27_CartLines ==
  [][/\ CartWellFormed(cart')
     /\ CartEdit =>
          /\ Len(cart') <= Len(cart) + 1
          /\ \A i \in ItemIds :
               /\ QuantityOf(cart, i) = 0 => QuantityOf(cart', i) \in {0, 1}
               /\ Len(cart') = Len(cart) + 1 /\ QuantityOf(cart, i) > 0
                    => QuantityOf(cart', i) = QuantityOf(cart, i)]_vars

C27_Witness ==
  /\ effects.pc = "idle"
  /\ Len(cart) = NumItems
  /\ cart[1].quantity = MaxCartQuantity
  /\ cart[NumItems].quantity = 1

(***************************************************************************)
(* C28.  The cart saved in localStorage survives the mount of the          *)
(* provider: while the effects of the mount run, in a development or in a  *)
(* production build, the saved text is not overwritten, and once they      *)
(* have run the cart is the cart the first effect read from localStorage.  *)
(***************************************************************************)
Mounting == effects.pc \in {"load", "save", "render"}

SavedCart == localStorage.present /\ parse(localStorage.text) # <<>>

C28_SavedCartSurvivesMount ==
  [][/\ Mounting /\ SavedCart => localStorage' = localStorage
     /\ effects.pc = "render" => cart' = effects.queue[1]]_vars

(***************************************************************************)
(* C29.  One checkout sends one order: however the clicks interleave with  *)
(* the pending address check and the pending order request, two            *)
(* POST /orders of the Checkout page are never in flight together.         *)
(***************************************************************************)
Posting == {h \in Clicks : handlers[h].pc = "post"}

C29_OneOrderPerCheckout == Cardinality(Posting) <= 1

(***************************************************************************)
(* C30.  For every order whose stored total is the amount of its creation, *)
(* the total the client's page shows for it is that stored total, which is *)
(* also what the administrator's page shows, whatever the catalog prices   *)
(* have become since.                                                      *)
(***************************************************************************)
MyOrdersShown == response.op = "getMyOrders" /\ response.code = 200

C30_ShownTotalIsStoredTotal ==
  MyOrdersShown =>
    \A k \in 1 .. Len(response.data) :
      LET order == response.data[k] IN
        order.total = expected[order.id]
          => /\ adminTotal(order) = orders[order.id].total
             /\ calcTotal(order) = orders[order.id].total

====
